---- MODULE Spec2Model ----
(***************************************************************************)
(* AtomicCmd of pypeline/atomiccmd/command.py: one command object, the     *)
(* child processes it spawns, the temp directories it stages its outputs   *)
(* in and the destinations commit() promotes them to.                      *)
(*                                                                         *)
(* The supervisor is single threaded: run, join, wait, terminate and       *)
(* commit are atomic steps.  The children are the environment; their       *)
(* steps interleave freely with the calls.  A Popen object is freed the    *)
(* moment self._proc stops referring to it (reference counting), and its   *)
(* weak reference's callback runs then.                                    *)
(*                                                                         *)
(* Spec is the command under its caller's calls.  KillSpec adds what the   *)
(* operating system may do besides: the child forks a grandchild into its  *)
(* process group, and SIGTERM is delivered to the supervisor, between two  *)
(* calls or while run() executes.  NewSpec is the constructor alone, over  *)
(* the keyword bundles of KwargsNew and KwargsStreams.  CallSpec is the    *)
(* constructor and run() over argument templates, with and without         *)
(* set_cwd.  PipeSpec is a command whose stdin is another command's        *)
(* stdout.  SetSpec is the command as a child of a ParallelCmds set, whose *)
(* commit() goes on to the next child after this one.  WireSpec is the     *)
(* consumer, its producer and a second consumer of the same producer, run  *)
(* in any order.  NodeSpec is MultiBAMInputNode of paleomix/nodes/         *)
(* picard.py, the node that sets up and tears down the temp directory      *)
(* around such a command.                                                  *)
(***************************************************************************)
EXTENDS Integers, Sequences, FiniteSets, TLC

\* Bound: the number of child processes one command object spawns.
MaxSpawn == 2
\* Bound: the number of SIGTERMs terminate() sends to one child.
MaxTerm == 2

\* signal.SIGTERM, as sent by os.killpg in terminate().
SIGTERM == 15

--------------------------------------------------------------------------
(* Values bound to keywords: a path (directory part, basename), the       *)
(* sentinel subprocess.PIPE, another AtomicCmd, or None.                   *)

Str(d, b) == [kind |-> "str", dir |-> d, base |-> b]
PIPE == [kind |-> "pipe", dir |-> "", base |-> ""]
NoValue == [kind |-> "none", dir |-> "", base |-> ""]
\* The AtomicCmd whose stdout feeds the modelled command (the producer);
\* as a stream handle, the read end of the pipe its Popen object keeps.
Cmd == [kind |-> "cmd", dir |-> "", base |-> ""]

\* isinstance(value, types.StringTypes)
isString(v) == v.kind = "str"

\* os.path.basename / os.path.dirname / os.path.join(root, name)
basename(v) == v.base
dirname(v) == v.dir
join_path(root, name) == Str(root, name)

\* The directory parts that are relative paths ("": none at all); every
\* other directory part of the model starts with "/".
RelativeDirs == {"", "sub", "rel", "X"}

\* os.getcwd() of the supervisor.
getcwd == "/tmp"

\* os.path.abspath, of a directory and of a file.
abspath_dir(d) ==
    IF d \notin RelativeDirs THEN d
    ELSE IF d = "" THEN getcwd ELSE getcwd \o "/" \o d
abspath(v) == Str(abspath_dir(dirname(v)), basename(v))

\* Keywords are kept as their "_"-separated fields, so that
\* key.startswith("OUT_") is computed, not assumed.
startswith(key, prefix) ==
    /\ Len(key) > Len(prefix)
    /\ SubSeq(key, 1, Len(prefix)) = prefix

OUT_F == <<"OUT", "F">>
OUT_STDOUT == <<"OUT", "STDOUT">>
OUT_STDERR == <<"OUT", "STDERR">>
TEMP_OUT_STDOUT == <<"TEMP", "OUT", "STDOUT">>
TEMP_OUT_STDERR == <<"TEMP", "OUT", "STDERR">>
IN_STDIN == <<"IN", "STDIN">>
TEMP_IN_STDIN == <<"TEMP", "IN", "STDIN">>
TEMP_IN_G == <<"TEMP", "IN", "G">>
TEMP_DIR == <<"TEMP", "DIR">>

\* The fields of a command (the argv template): a string without "%", the
\* placeholder "%(KEY)s", the placeholder "%(KEY)d", and a string that ends
\* in a lone "%".
Lit(v) == [fmt |-> "lit", key |-> <<>>, text |-> v]
Ref(key) == [fmt |-> "s", key |-> key, text |-> NoValue]
RefD(key) == [fmt |-> "d", key |-> key, text |-> NoValue]
Malformed == [fmt |-> "%", key |-> <<>>, text |-> NoValue]

\* The command of the modelled AtomicCmd, where no other is said.
MainCommand == <<Lit(Str("", "sh"))>>

\* os.path.basename(command[0]), and id(self) of the command.
executable(command) == basename(command[1].text)
proc_id == "1"

\* The keyword bundles the modelled command may be built from: one
\* declared output file, stdout bound to a second declared output or to
\* PIPE, and a file the caller stages in the temp directory.  stderr is
\* left to its default sink.
Kwargs ==
    { (OUT_F :> Str("/abs", "out.txt")) @@ (OUT_STDOUT :> Str("/abs", "log"))
          @@ (TEMP_IN_G :> Str("", "g")),
      (OUT_F :> Str("/abs", "out.txt")) @@ (OUT_STDOUT :> PIPE)
          @@ (TEMP_IN_G :> Str("", "g")) }

\* As _process_arguments, the default sinks added only when neither stdout
\* nor stderr is bound.
_process_arguments_both_unbound(command, kwargs) ==
    LET given == {k \in DOMAIN kwargs : kwargs[k] # NoValue}
        bound(pipe) == <<"OUT", pipe>> \in given \/ <<"TEMP", "OUT", pipe>> \in given
        lower(pipe) == IF pipe = "STDOUT" THEN "stdout" ELSE "stderr"
        added == IF bound("STDOUT") \/ bound("STDERR")
                 THEN {}
                 ELSE {TEMP_OUT_STDOUT, TEMP_OUT_STDERR}
    IN  [k \in given \cup added |->
            IF k \in given
            THEN kwargs[k]
            ELSE Str("", "pipe_" \o executable(command) \o "_" \o proc_id
                            \o "." \o lower(k[3]))]

\* _process_arguments followed by _build_files_dict: the bound keywords,
\* plus TEMP_OUT_<pipe> for each of stdout and stderr bound neither as
\* OUT_<pipe> nor as TEMP_OUT_<pipe>.
_process_arguments(command, kwargs) ==
    LET given == {k \in DOMAIN kwargs : kwargs[k] # NoValue}
        default(pipe) ==
            IF <<"OUT", pipe>> \in given \/ <<"TEMP", "OUT", pipe>> \in given
            THEN {}
            ELSE {<<"TEMP", "OUT", pipe>>}
        lower(pipe) == IF pipe = "STDOUT" THEN "stdout" ELSE "stderr"
        added == default("STDOUT") \cup default("STDERR")
    IN  [k \in given \cup added |->
            IF k \in given
            THEN kwargs[k]
            ELSE Str("", "pipe_" \o executable(command) \o "_" \o proc_id
                            \o "." \o lower(k[3]))]

\* As _generate_filenames, only the OUT_* values re-rooted.
_generate_filenames_out_only(files, root) ==
    [k \in DOMAIN files \cup {TEMP_DIR} |->
        IF k = TEMP_DIR THEN Str(root, "")
        ELSE IF isString(files[k]) /\ startswith(k, <<"OUT">>)
        THEN join_path(root, basename(files[k]))
        ELSE IF isString(files[k]) /\ root = ""
                /\ (startswith(k, <<"IN">>) \/ startswith(k, <<"AUX">>))
        THEN abspath(files[k])
        ELSE files[k]]

\* As _generate_filenames, no value made absolute.
_generate_filenames_no_abspath(files, root) ==
    [k \in DOMAIN files \cup {TEMP_DIR} |->
        IF k = TEMP_DIR THEN Str(root, "")
        ELSE IF isString(files[k])
                /\ (startswith(k, <<"TEMP">>) \/ startswith(k, <<"OUT">>))
        THEN join_path(root, basename(files[k]))
        ELSE files[k]]

\* As _generate_filenames, the OUT_* values left as they are bound.
_generate_filenames_temp_only(files, root) ==
    [k \in DOMAIN files \cup {TEMP_DIR} |->
        IF k = TEMP_DIR THEN Str(root, "")
        ELSE IF isString(files[k]) /\ startswith(k, <<"TEMP">>)
        THEN join_path(root, basename(files[k]))
        ELSE IF isString(files[k]) /\ root = ""
                /\ (startswith(k, <<"IN">>) \/ startswith(k, <<"AUX">>))
        THEN abspath(files[k])
        ELSE files[k]]

\* _generate_filenames(files, root): TEMP_DIR is root (kept as the path
\* with directory part root and no basename); TEMP_* and OUT_* values are
\* re-rooted at root; IN_* and AUX_* values are made absolute when root is
\* empty; everything else passes through.
_generate_filenames(files, root) ==
    [k \in DOMAIN files \cup {TEMP_DIR} |->
        IF k = TEMP_DIR THEN Str(root, "")
        ELSE IF isString(files[k])
                /\ (startswith(k, <<"TEMP">>) \/ startswith(k, <<"OUT">>))
        THEN join_path(root, basename(files[k]))
        ELSE IF isString(files[k]) /\ root = ""
                /\ (startswith(k, <<"IN">>) \/ startswith(k, <<"AUX">>))
        THEN abspath(files[k])
        ELSE files[k]]

\* str(value), as "%(KEY)s" renders a bound value.
str(v) ==
    CASE isString(v) -> v
      [] v = PIPE -> Str("", "-1")
      [] OTHER -> Str("", "<" \o v.kind \o ">")

\* field % kwords: the exception it raises ("": none), and its value.
format_error(field, kwords) ==
    CASE field.fmt = "lit" -> ""
      [] field.fmt = "%" -> "ValueError"
      [] field.key \notin DOMAIN kwords -> "KeyError"
      [] field.fmt = "d" /\ kwords[field.key].kind \notin {"pipe", "int"} -> "TypeError"
      [] OTHER -> ""
format(field, kwords) ==
    IF field.fmt = "lit" THEN field.text ELSE str(kwords[field.key])

\* What _generate_call returns or raises: the argv, or the error together
\* with the key it names.
Call(argv) == [status |-> "ok", call |-> argv, err |-> "", names |-> {}]
CallError(what, names) ==
    [status |-> "raise", call |-> <<>>, err |-> what, names |-> names]

\* _generate_call(temp): every field of the command formatted in turn; the
\* first field that cannot be raises.
_generate_call(files, command, temp) ==
    LET kwords == _generate_filenames(files, temp)
        bad == {i \in DOMAIN command : format_error(command[i], kwords) # ""}
        first == CHOOSE i \in bad : \A j \in bad : i <= j
    IN  IF bad = {}
        THEN Call([i \in DOMAIN command |-> format(command[i], kwords)])
        ELSE IF format_error(command[first], kwords) = "KeyError"
        THEN CallError("CmdError: Error building Atomic Command: Value not specified for path",
                       {command[first].key})
        ELSE CallError("CmdError: Error building Atomic Command: "
                           \o format_error(command[first], kwords), {})

\* file_sets["output"]: the string values of the OUT group.
output_files(files) ==
    {files[k] : k \in {x \in DOMAIN files :
                          startswith(x, <<"OUT">>) /\ isString(files[x])}}

\* file_sets["output_fname"]: map(os.path.basename, file_sets["output"]).
expected_temp_files(files) == {basename(v) : v \in output_files(files)}

--------------------------------------------------------------------------
(* AtomicCmd.__init__: the validation of the keyword arguments and the    *)
(* file sets.                                                             *)

\* Bound: the number of keyword arguments given to the constructor.
MaxKwargs == 5

\* A callable, and a value that is neither a string, PIPE, None nor a
\* callable.
Callable == [kind |-> "callable", dir |-> "", base |-> ""]
Number == [kind |-> "int", dir |-> "", base |-> ""]

\* The values each keyword may be given.
KeyValues ==
    (<<"OUT", "A">> :> {Str("/p", "x"), Str("/p", "y"), Number})
    @@ (<<"OUT", "B">> :> {Str("/q", "x"), Str("/q", "pipe_sh_1.stderr")})
    @@ (<<"TEMP", "OUT", "T">> :> {Str("", "y"), Str("sub", "y"), NoValue})
    @@ (OUT_STDOUT :> {PIPE, Str("/q", "y")})
    @@ (TEMP_OUT_STDOUT :> {Str("", "t.log")})
    @@ (<<"IN", "F">> :> {Str("/in", "f")})
    @@ (<<"TEMP", "IN", "G">> :> {Str("", "g")})
    @@ (<<"EXEC", "E">> :> {Str("/bin", "e")})
    @@ (<<"AUX", "X">> :> {Str("/aux", "x")})
    @@ (<<"CHECK", "V">> :> {Callable, Str("", "v")})
    @@ (<<"FOO", "X">> :> {Str("/p", "foo")})

\* The bundles that bind exactly the keywords ks.
RECURSIVE Bundles(_)
Bundles(ks) ==
    IF ks = {}
    THEN {<<>>}
    ELSE LET k == CHOOSE x \in ks : TRUE
         IN  {(k :> v) @@ f : v \in KeyValues[k], f \in Bundles(ks \ {k})}

\* The keyword bundles the constructor is tried on.
KwargsNew ==
    UNION {Bundles(ks) :
              ks \in {x \in SUBSET DOMAIN KeyValues : Cardinality(x) <= MaxKwargs}}

\* Bound: the number of keyword arguments of the bundles that bind the
\* streams.
MaxStreams == 3

\* The values the stream keywords, and a keyword of each other group, may
\* be given in those bundles.
StreamValues ==
    (IN_STDIN :> {Str("/in", "f"), Cmd, PIPE})
    @@ (TEMP_IN_STDIN :> {Str("", "g"), Str("sub", "g"), Cmd})
    @@ (OUT_STDOUT :> {PIPE, Str("/q", "y"), NoValue})
    @@ (TEMP_OUT_STDOUT :> {PIPE, Str("", "t.log")})
    @@ (OUT_STDERR :> {Str("/q", "e"), Str("/q", "y"), PIPE})
    @@ (TEMP_OUT_STDERR :> {Str("", "t.err"), PIPE})
    @@ (<<"OUT", "A">> :> {Str("/p", "x"), PIPE})
    @@ (<<"TEMP", "OUT", "T">> :> {Str("", "t"), PIPE})
    @@ (<<"EXEC", "E">> :> {Str("/bin", "e"), PIPE})
    @@ (<<"AUX", "X">> :> {Str("/aux", "x"), PIPE})
    @@ (<<"CHECK", "V">> :> {Callable, PIPE})

RECURSIVE StreamBundles(_)
StreamBundles(ks) ==
    IF ks = {}
    THEN {<<>>}
    ELSE LET k == CHOOSE x \in ks : TRUE
         IN  {(k :> v) @@ f : v \in StreamValues[k], f \in StreamBundles(ks \ {k})}

KwargsStreams ==
    UNION {StreamBundles(ks) :
              ks \in {x \in SUBSET DOMAIN StreamValues : Cardinality(x) <= MaxStreams}}

\* The commands those bundles are given with: the executable named with
\* and without a directory.
StreamCommands == {MainCommand, <<Lit(Str("/bin", "sh")), Lit(Str("", "-c"))>>}

\* _KEY_RE.match(key).groups(): the group of a keyword, <<>> when the
\* keyword does not match.
_KEY_RE(key) ==
    IF Len(key) >= 2 /\ key[1] \in {"IN", "OUT", "EXEC", "AUX", "CHECK"}
    THEN <<key[1]>>
    ELSE IF Len(key) >= 3 /\ key[1] = "TEMP" /\ key[2] \in {"IN", "OUT"}
         THEN <<"TEMP", key[2]>>
         ELSE <<>>

\* The keys of the given groups.
in_groups(arguments, groups) == {k \in DOMAIN arguments : _KEY_RE(k) \in groups}

\* An exception raised by the constructor, names being the keys its
\* message lists; a constructed command; no command yet.
Failed(what, names) ==
    [status |-> "raise", err |-> what, names |-> names, files |-> <<>>,
     file_sets |-> <<>>]
Constructed(files, file_sets) ==
    [status |-> "ok", err |-> "", names |-> {}, files |-> files,
     file_sets |-> file_sets]
NotBuilt ==
    [status |-> "-", err |-> "", names |-> {}, files |-> <<>>, file_sets |-> <<>>]

\* As _validate_arguments, PIPE accepted for every key of OUT and TEMP_OUT.
_validate_arguments_pipe_any_output(arguments) ==
    LET outputs == {k \in in_groups(arguments, {<<"OUT">>, <<"TEMP", "OUT">>}) :
                       ~isString(arguments[k]) /\ arguments[k] # PIPE}
        inputs == {k \in in_groups(arguments, {<<"IN">>, <<"TEMP", "IN">>,
                                                <<"EXEC">>, <<"AUX">>}) :
                       /\ ~isString(arguments[k])
                       /\ (k \in {IN_STDIN, TEMP_IN_STDIN} => arguments[k] # Cmd)}
        checks == {k \in in_groups(arguments, {<<"CHECK">>}) :
                       arguments[k] # Callable}
        dirs == {k \in in_groups(arguments, {<<"TEMP", "IN">>, <<"TEMP", "OUT">>}) :
                       isString(arguments[k]) /\ dirname(arguments[k]) # ""}
    IN  IF outputs # {} THEN {Failed("TypeError: must be string", {k}) : k \in outputs}
        ELSE IF inputs # {} THEN {Failed("TypeError: must be string", {k}) : k \in inputs}
        ELSE IF checks # {} THEN {Failed("TypeError: must be callable", {k}) : k \in checks}
        ELSE {Failed("ValueError: cannot contain dir component", {k}) : k \in dirs}

\* As _validate_arguments, without its last pass.
_validate_arguments_no_dirs(arguments) ==
    LET outputs == {k \in in_groups(arguments, {<<"OUT">>, <<"TEMP", "OUT">>}) :
                       /\ ~isString(arguments[k])
                       /\ (k \in {OUT_STDOUT, TEMP_OUT_STDOUT} => arguments[k] # PIPE)}
        inputs == {k \in in_groups(arguments, {<<"IN">>, <<"TEMP", "IN">>,
                                                <<"EXEC">>, <<"AUX">>}) :
                       /\ ~isString(arguments[k])
                       /\ (k \in {IN_STDIN, TEMP_IN_STDIN} => arguments[k] # Cmd)}
        checks == {k \in in_groups(arguments, {<<"CHECK">>}) :
                       arguments[k] # Callable}
    IN  IF outputs # {} THEN {Failed("TypeError: must be string", {k}) : k \in outputs}
        ELSE IF inputs # {} THEN {Failed("TypeError: must be string", {k}) : k \in inputs}
        ELSE {Failed("TypeError: must be callable", {k}) : k \in checks}

\* _validate_arguments: the exceptions it may raise ({}: it returns).  The
\* checks are made in four passes and the first failing pass raises.
_validate_arguments(arguments) ==
    LET outputs == {k \in in_groups(arguments, {<<"OUT">>, <<"TEMP", "OUT">>}) :
                       /\ ~isString(arguments[k])
                       /\ (k \in {OUT_STDOUT, TEMP_OUT_STDOUT} => arguments[k] # PIPE)}
        inputs == {k \in in_groups(arguments, {<<"IN">>, <<"TEMP", "IN">>,
                                                <<"EXEC">>, <<"AUX">>}) :
                       /\ ~isString(arguments[k])
                       /\ (k \in {IN_STDIN, TEMP_IN_STDIN} => arguments[k] # Cmd)}
        checks == {k \in in_groups(arguments, {<<"CHECK">>}) :
                       arguments[k] # Callable}
        dirs == {k \in in_groups(arguments, {<<"TEMP", "IN">>, <<"TEMP", "OUT">>}) :
                       isString(arguments[k]) /\ dirname(arguments[k]) # ""}
    IN  IF outputs # {} THEN {Failed("TypeError: must be string", {k}) : k \in outputs}
        ELSE IF inputs # {} THEN {Failed("TypeError: must be string", {k}) : k \in inputs}
        ELSE IF checks # {} THEN {Failed("TypeError: must be callable", {k}) : k \in checks}
        ELSE {Failed("ValueError: cannot contain dir component", {k}) : k \in dirs}

\* As _validate_output_files, the TEMP_OUT group left out.
_validate_output_files_out_only(arguments) ==
    LET keys(b) == {k \in in_groups(arguments, {<<"OUT">>}) :
                       isString(arguments[k]) /\ basename(arguments[k]) = b}
        names == {basename(arguments[k]) : k \in {x \in DOMAIN arguments :
                                                      isString(arguments[x])}}
    IN  {Failed("ValueError: Same output filename", keys(b)) :
            b \in {x \in names : Cardinality(keys(x)) > 1}}

\* _validate_output_files: the exceptions it may raise, one for each
\* basename that more than one key of OUT and TEMP_OUT is bound to.
_validate_output_files(arguments) ==
    LET keys(b) == {k \in in_groups(arguments, {<<"OUT">>, <<"TEMP", "OUT">>}) :
                       isString(arguments[k]) /\ basename(arguments[k]) = b}
        names == {basename(arguments[k]) : k \in {x \in DOMAIN arguments :
                                                      isString(arguments[x])}}
    IN  {Failed("ValueError: Same output filename", keys(b)) :
            b \in {x \in names : Cardinality(keys(x)) > 1}}

\* As _validate_pipes, only stdout looked at.
_validate_pipes_stdout_only(arguments) ==
    IF OUT_STDOUT \in DOMAIN arguments /\ TEMP_OUT_STDOUT \in DOMAIN arguments
    THEN {Failed("CmdError: Pipes may only be specified once", {})}
    ELSE {}

\* _validate_pipes: a stream bound both with and without TEMP_.
_validate_pipes(arguments) ==
    IF \E pipe \in {IN_STDIN, OUT_STDOUT, OUT_STDERR} :
          pipe \in DOMAIN arguments /\ (<<"TEMP">> \o pipe) \in DOMAIN arguments
    THEN {Failed("CmdError: Pipes may only be specified once", {})}
    ELSE {}

\* _FILE_MAP: the file set of each group.
_FILE_MAP ==
    (<<"IN">> :> "input") @@ (<<"OUT">> :> "output")
    @@ (<<"TEMP", "IN">> :> "None") @@ (<<"TEMP", "OUT">> :> "temporary_fname")
    @@ (<<"EXEC">> :> "executable") @@ (<<"AUX">> :> "auxiliary")
    @@ (<<"CHECK">> :> "requirements")

\* As _build_files_map, every value of a group added to its set.
_build_files_map_all_values(command, arguments) ==
    LET group_set(name) ==
            {arguments[k] : k \in {x \in DOMAIN arguments :
                                      _FILE_MAP[_KEY_RE(x)] = name}}
        sets == [name \in {_FILE_MAP[g] : g \in DOMAIN _FILE_MAP} |->
                    group_set(name)
                    \cup (IF name = "executable" THEN {command[1].text} ELSE {})]
    IN  ("output_fname" :> {basename(v) : v \in sets["output"]}) @@ sets

\* _build_files_map(command, arguments): the file sets.  A value is added
\* to the set of its group when it is a string or its key is a CHECK_ key.
_build_files_map(command, arguments) ==
    LET group_set(name) ==
            {arguments[k] : k \in {x \in DOMAIN arguments :
                /\ _FILE_MAP[_KEY_RE(x)] = name
                /\ (isString(arguments[x]) \/ startswith(x, <<"CHECK">>))}}
        sets == [name \in {_FILE_MAP[g] : g \in DOMAIN _FILE_MAP} |->
                    group_set(name)
                    \cup (IF name = "executable" THEN {command[1].text} ELSE {})]
    IN  ("output_fname" :> {basename(v) : v \in sets["output"]}) @@ sets

\* As dry_run, the command not templated.
dry_run_skipped(files, command) == Call(<<>>)

\* The dry run of the constructor: self._generate_call("/tmp").
dry_run(files, command) == _generate_call(files, command, "/tmp")

\* AtomicCmd(command, **kw): the outcomes the constructor may have.
__init__(command, kw) ==
    LET invalid == {k \in DOMAIN kw : _KEY_RE(k) = <<>>}
        arguments == _process_arguments(command, kw)
    IN  IF command = <<>>
        THEN {Failed("ValueError: Empty command in AtomicCmd constructor", {})}
        ELSE IF invalid # {}
        THEN {Failed("ValueError: Invalid keyword argument", {k}) : k \in invalid}
        ELSE IF _validate_arguments(arguments) # {}
        THEN _validate_arguments(arguments)
        ELSE IF _validate_output_files(arguments) # {}
        THEN _validate_output_files(arguments)
        ELSE IF _validate_pipes(arguments) # {}
        THEN _validate_pipes(arguments)
        ELSE IF dry_run(arguments, command).status = "raise"
        THEN {Failed(dry_run(arguments, command).err, dry_run(arguments, command).names)}
        ELSE {Constructed(arguments, _build_files_map(command, arguments))}

--------------------------------------------------------------------------
(* The file system.  A temp directory is named by a path; two paths may   *)
(* name one directory (os.path.samefile compares the directories).         *)

TempPaths == {"/tmp/X", "/tmp/X_link", "/tmp/Y"}

\* The caller runs the command in /tmp/X, which it names by its link, and
\* commits under any name; /tmp/Y is another command's directory.
RunPaths == {"/tmp/X_link"}

realdir(path) == IF path = "/tmp/Y" THEN "Y" ELSE "X"

Dirs == {realdir(p) : p \in TempPaths}

samefile(a, b) == realdir(a) = realdir(b)

AllValues ==
    UNION {{f[k] : k \in DOMAIN f} :
              f \in {_process_arguments(MainCommand, kw) : kw \in Kwargs}}

Basenames == {basename(v) : v \in {x \in AllValues : isString(x)}}

\* The locations outside the temp directories that the bindings name: the
\* declared destinations and, for a value without directory part, the file
\* of that name in the working directory.
DestPaths == {v \in AllValues : isString(v)}

\* What a file holds: nothing yet ("empty", as left by open(.., "wb")), the
\* data a child wrote under that name, or what some other command left
\* there ("old").  "absent": no such file.
ChildData(name) == "data of " \o name

Pids == 1..MaxSpawn

--------------------------------------------------------------------------
VARIABLES
    _files,      \* self._files
    _proc,       \* self._proc: 0 for None, else the pid of the Popen object
    _temp,       \* self._temp: "" for None, else a path
    _running,    \* self._running
    _PROCS,      \* the kill list: the pids whose weak references are alive
    handler,     \* the process's SIGTERM handler
    child,       \* the operating system's view of each child
    sigterms,    \* the number of SIGTERMs sent to each child's process group
    tempfs,      \* the contents of the temp directories
    destfs,      \* the contents of the locations outside the temp directories
    kwargs,      \* the keyword arguments the constructor was given
    built,       \* what the constructor did with them
    command,     \* the command (argv template) the constructor was given
    set_cwd,     \* the set_cwd argument of the constructor
    popen,       \* the arguments of the last subprocess.Popen call
    producer,    \* the AtomicCmd that IN_STDIN may be bound to: "built"
                 \* (never run), "open" (run, the supervisor holds the read
                 \* end of its stdout pipe) or "closed" (that end closed)
    handles,     \* the open file objects the supervisor holds
    installs,    \* the number of signal.signal(SIGTERM, ..) calls made
    waited,      \* the pids whose exit status Popen has collected
    grandchild,  \* per child, the process it forked into its process group
    supervisor,  \* the supervisor process itself
    op,          \* the last call made on the command ("env": none since
                 \* the environment last moved)
    arg,         \* its argument
    res,         \* what it returned or raised
    node,        \* the MultiBAMInputNode that wraps a command: what its
                 \* constructor was given and did, and its temp directory
    hist         \* what the caller has seen: runTemp, the temp directory of
                 \* its last run() that was not refused ("": none); spawned,
                 \* whether that run() returned; status, the exit status
                 \* join() or wait() has reported since (None: none);
                 \* committed, whether commit() has returned since

vars == <<_files, _proc, _temp, _running, _PROCS, handler, child, sigterms,
          tempfs, destfs, kwargs, built, command, set_cwd, popen, producer,
          handles, installs, waited, grandchild, supervisor, op, arg, res,
          node, hist>>

\* What no call on the command changes once it is constructed; nor does
\* any the node, which only its own constructor, _setup and _teardown
\* change.
ctor == <<_files, kwargs, built, command, set_cwd, node>>

\* Return values: an int, a str or None.
IntV(n) == [kind |-> "int", int |-> n, str |-> ""]
StrV(s) == [kind |-> "str", int |-> 0, str |-> s]
NoneV == [kind |-> "None", int |-> 0, str |-> ""]

\* What a call did: it returned (ret: the values returned, list: as a list)
\* or it raised (err: the message, names: the file names the message lists).
Returned(values, as_list) ==
    [status |-> "ok", err |-> "", ret |-> values, list |-> as_list, names |-> {}]
Raised(what, names) ==
    [status |-> "raise", err |-> what, ret |-> <<>>, list |-> FALSE, names |-> names]
NoResult == [status |-> "-", err |-> "", ret |-> <<>>, list |-> FALSE, names |-> {}]

Unborn == [state |-> "unborn", code |-> 0, dir |-> ""]

\* The supervisor process: running, or ended by sys.exit(status), by a
\* signal, or by an exception a signal handler raised.
Running == [state |-> "running", status |-> 0]

\* No subprocess.Popen call yet.  cwd is "None" where Popen is given None.
NoPopen ==
    [call |-> <<>>, cwd |-> "None", stdin |-> NoValue, stdout |-> NoValue,
     stderr |-> NoValue]

\* The names of the files the caller stages in the temp directory before
\* run(): those the TEMP_IN_* keys are bound to.
Staged(kw) ==
    {basename(kw[k]) : k \in {x \in DOMAIN kw :
                                 startswith(x, <<"TEMP", "IN">>) /\ isString(kw[x])}}

\* No MultiBAMInputNode constructed yet.
NoNode ==
    [status |-> "-", err |-> "", input_bams |-> <<>>, index_format |-> "None",
     merge |-> FALSE, temp |-> <<>>, created |-> {}, removed |-> {}]

\* The state before any call, but for the command itself.
InitProcess ==
    /\ node = NoNode
    /\ _proc = 0
    /\ _temp = ""
    /\ _running = FALSE
    /\ _PROCS = {}
    /\ handler = "SIG_DFL"
    /\ child = [p \in Pids |-> Unborn]
    /\ sigterms = [p \in Pids |-> 0]
    /\ tempfs = [d \in Dirs |-> [b \in Basenames |->
                    IF d = realdir("/tmp/Y") \/ b \in Staged(kwargs)
                    THEN "old" ELSE "absent"]]
    /\ popen = NoPopen
    /\ producer = "built"
    /\ handles = {}
    /\ installs = 0
    /\ waited = {}
    /\ grandchild = [p \in Pids |-> "none"]
    /\ supervisor = Running

Init ==
    /\ kwargs \in Kwargs
    /\ command = MainCommand
    /\ set_cwd = FALSE
    /\ built \in __init__(command, kwargs)
    /\ built.status = "ok"
    /\ _files = built.files
    /\ InitProcess
    /\ destfs \in [DestPaths -> {"absent", "old"}]
    /\ \A p \in DestPaths : p \notin output_files(_files) => destfs[p] = "absent"
    /\ op = "env"
    /\ arg = ""
    /\ res = NoResult
    /\ hist = [runTemp |-> "", spawned |-> FALSE, status |-> NoneV,
               committed |-> FALSE]

--------------------------------------------------------------------------
(* The children.                                                          *)

ExitCodes == {0, 1}
\* The signals a child may die of without the supervisor sending them.
KillSignals == {13}

\* Popen.returncode of a child that has ended: the exit status, or minus
\* the number of the signal that killed it.
returncode(c) == IF c.state = "signaled" THEN 0 - c.code ELSE c.code

\* Popen.poll() is not None
polled(c) == c.state \in {"exited", "signaled"}

\* The ways a running child may end: by exiting, by a signal from outside,
\* or by a SIGTERM that was sent to its process group.
Endings(pid) ==
    {[state |-> "exited", code |-> n] : n \in ExitCodes}
    \cup {[state |-> "signaled", code |-> n] : n \in KillSignals}
    \cup (IF sigterms[pid] > 0 THEN {[state |-> "signaled", code |-> SIGTERM]} ELSE {})

NoEnd == [state |-> "none", code |-> 0]

Ended(c, end) == [c EXCEPT !.state = end.state, !.code = end.code]

NextPid == 1 + Cardinality({p \in Pids : child[p].state # "unborn"})

\* The files a child writes data to: its declared outputs, under the names
\* its argv and its stdout/stderr give them inside the temp directory.
Writable(files) == expected_temp_files(files)

\* A child whose Popen object has been freed: nothing observes it again.
Reaped == [state |-> "reaped", code |-> 0, dir |-> ""]

Env == op' = "env" /\ arg' = "" /\ res' = NoResult

ChildWrite(pid, b) ==
    /\ child[pid].state = "running"
    /\ b \in Writable(_files)
    /\ tempfs[child[pid].dir][b] # ChildData(b)
    /\ tempfs' = [tempfs EXCEPT ![child[pid].dir][b] = ChildData(b)]
    /\ Env
    /\ UNCHANGED <<ctor, popen, producer, _proc, _temp, _running, _PROCS, handler, child,
                   sigterms, destfs, handles, installs, waited, grandchild,
                   supervisor, hist>>

ChildEnd(pid, end) ==
    /\ child[pid].state = "running"
    /\ end \in Endings(pid)
    /\ child' = [child EXCEPT ![pid] = Ended(@, end)]
    /\ Env
    /\ UNCHANGED <<ctor, popen, producer, _proc, _temp, _running, _PROCS, handler, sigterms,
                   tempfs, destfs, handles, installs, waited, grandchild,
                   supervisor, hist>>

\* A running child forks a process that stays in its process group.
ChildFork(pid) ==
    /\ child[pid].state = "running"
    /\ grandchild[pid] = "none"
    /\ grandchild' = [grandchild EXCEPT ![pid] = "alive"]
    /\ Env
    /\ UNCHANGED <<ctor, popen, producer, _proc, _temp, _running, _PROCS, handler, child,
                   sigterms, tempfs, destfs, handles, installs, waited,
                   supervisor, hist>>

\* A grandchild exits by itself.
GrandchildEnd(pid) ==
    /\ grandchild[pid] = "alive"
    /\ grandchild' = [grandchild EXCEPT ![pid] = "dead"]
    /\ Env
    /\ UNCHANGED <<ctor, popen, producer, _proc, _temp, _running, _PROCS, handler, child,
                   sigterms, tempfs, destfs, handles, installs, waited,
                   supervisor, hist>>

\* Whether a process group exists: its leader runs or has not been waited
\* for, or a member it forked is alive.
pgid_exists(pid) ==
    \/ child[pid].state = "running"
    \/ (polled(child[pid]) /\ pid \notin waited)
    \/ grandchild[pid] = "alive"

\* os.killpg(pid, SIGTERM) for each of pids: the signals sent, and the
\* grandchildren, which keep SIGTERM's default action.
killpg_sent(sent, pids) ==
    [p \in Pids |-> IF p \in pids THEN sent[p] + 1 ELSE sent[p]]
killpg_group(group, pids) ==
    [p \in Pids |-> IF p \in pids /\ group[p] = "alive" THEN "dead" ELSE group[p]]

\* Popen.poll(): the exit status of an ended child is collected.
poll(collected) ==
    IF _proc # 0 /\ polled(child[_proc]) THEN collected \cup {_proc} ELSE collected

--------------------------------------------------------------------------
(* AtomicCmd.run                                                          *)

\* As _open_pipe, the producer's stdout taken whether or not the producer
\* has a Popen object.
_open_pipe_any_producer(kwords, pipe) ==
    IF pipe \in DOMAIN kwords THEN kwords[pipe]
    ELSE IF (<<"TEMP">> \o pipe) \in DOMAIN kwords
         THEN kwords[<<"TEMP">> \o pipe]
         ELSE NoValue

\* _open_pipe(kwords, pipe, mode): the value the stream is bound to, looked
\* up as <pipe>, else as TEMP_<pipe>.  None and PIPE are returned as they
\* are; an AtomicCmd gives the stdout of its Popen object, None while it
\* has none; a string is opened.
_open_pipe(kwords, pipe) ==
    LET filename == IF pipe \in DOMAIN kwords THEN kwords[pipe]
                    ELSE IF (<<"TEMP">> \o pipe) \in DOMAIN kwords
                         THEN kwords[<<"TEMP">> \o pipe]
                         ELSE NoValue
    IN  IF filename = Cmd /\ producer = "built" THEN NoValue ELSE filename

\* open(filename, "wb") on each of the given files: created or truncated.
opened_wb(fs, dir, names) ==
    [fs EXCEPT ![dir] = [b \in Basenames |-> IF b \in names THEN "empty" ELSE @[b]]]

\* weakref.ref(proc, _PROCS.remove): the entries left once the Popen
\* objects of the given pids have been freed.
freed(procs, pids) == procs \ pids

\* The files that open(filename, "wb") creates or truncates outside the
\* temp directories.
opened_outside(fs, paths) ==
    [p \in DestPaths |-> IF p \in paths THEN "empty" ELSE fs[p]]

\* What is kept per child, with the entry of a freed Popen object reset.
forgotten(f, pid, blank) == [p \in Pids |-> IF p = pid THEN blank ELSE f[p]]

\* As _add_to_killlist, the handler installed by the first call only.
_add_to_killlist_first_only(procs, pid) ==
    /\ handler' = IF installs = 0 THEN "_cleanup_children" ELSE handler
    /\ installs' = IF installs = 0 THEN installs + 1 ELSE installs
    /\ _PROCS' = procs \cup {pid}

\* _add_to_killlist(proc), procs being the kill list at the call.
_add_to_killlist(procs, pid) ==
    /\ handler' = IF procs = {} THEN "_cleanup_children" ELSE handler
    /\ installs' = IF procs = {} THEN installs + 1 ELSE installs
    /\ _PROCS' = procs \cup {pid}

\* self._proc = subprocess.Popen(call, stdout=stdout, ..., preexec_fn=
\* os.setsid) in directory temp: the child leads a new session and process
\* group; Popen keeps the read end of a stdout pipe.  The Popen object
\* self._proc referred to before is freed.  left: the stream handles of
\* run() that stay open.
Popen(temp, stdout, left) ==
    /\ _proc' = NextPid
    /\ child' = [p \in Pids |->
          IF p = NextPid
          THEN [state |-> "running", code |-> 0, dir |-> realdir(temp)]
          ELSE IF p = _proc THEN Reaped ELSE child[p]]
    /\ waited' = waited \ {_proc}
    /\ handles' = {h \in handles : h[1] # _proc}
                  \cup (IF stdout = PIPE THEN {<<NextPid, "stdout">>} ELSE {})
                  \cup left

\* fail: where run() fails, if it does: opening the stdin file, the stdout
\* file or the stderr file, or subprocess.Popen.
RunFailures == {"none", "open_stdin", "open_stdout", "open_stderr", "Popen"}

\* stdin, stdout and stderr of run() when it reaches its finally clause:
\* None for a stream it did not get to.
streams_at(kwords, fail) ==
    [stdin |-> IF fail = "open_stdin" THEN NoValue ELSE _open_pipe(kwords, IN_STDIN),
     stdout |-> IF fail \in {"open_stdin", "open_stdout"}
                THEN NoValue ELSE _open_pipe(kwords, OUT_STDOUT),
     stderr |-> IF fail \in {"open_stdin", "open_stdout", "open_stderr"}
                THEN NoValue ELSE _open_pipe(kwords, OUT_STDERR)]

\* As finally_close, only the files run() opened itself closed.
finally_close_own_files(streams) ==
    {s \in DOMAIN streams : isString(streams[s])}

\* The finally clause of run(): the streams whose handle it closes.
finally_close(streams) ==
    {s \in DOMAIN streams : streams[s] \notin {NoValue, PIPE}}

\* The handles of run() that its finally clause leaves open: <<0, s>> is
\* the handle of stream s, which no Popen object owns.
left_open(streams) ==
    {<<0, s>> : s \in {x \in DOMAIN streams : streams[x] \notin {NoValue, PIPE}}
                          \ finally_close(streams)}

\* The producer's stdout once run() is through with it.
borrowed(streams) ==
    IF streams.stdin = Cmd /\ "stdin" \in finally_close(streams)
    THEN "closed"
    ELSE producer

\* cwd and temp of run() after lines 175-176.
cwd_of(temp) == IF set_cwd THEN temp ELSE "None"
root_of(temp) == IF set_cwd THEN "" ELSE abspath_dir(temp)

\* The arguments subprocess.Popen is called with.
Popen_args(call, temp, streams) ==
    [call |-> call, cwd |-> cwd_of(temp), stdin |-> streams.stdin,
     stdout |-> streams.stdout, stderr |-> streams.stderr]

\* As usable, a closed file accepted.
usable_always(streams) == TRUE

\* Whether subprocess.Popen can use the streams: it cannot read the file
\* number of a closed file.
usable(streams) == ~(streams.stdin = Cmd /\ producer = "closed")

run(temp, fail) ==
    /\ supervisor = Running
    /\ built.status = "ok"
    /\ op' = "run"
    /\ arg' = temp
    /\ IF _running
       THEN /\ fail = "none"
            /\ res' = Raised("CmdError: Calling 'run' on already running command.", {})
            /\ UNCHANGED <<ctor, popen, producer, _proc, _temp, _running, _PROCS, handler,
                           child, sigterms, tempfs, destfs, handles, installs,
                           waited, grandchild, supervisor, hist>>
       ELSE LET kwords == _generate_filenames(_files, temp)
                streams == streams_at(kwords, fail)
                opened == {x \in {streams.stdout, streams.stderr} : isString(x)}
                names == {basename(v) : v \in {x \in opened : dirname(x) = temp}}
                call == _generate_call(_files, command, root_of(temp))
                templated == fail \in {"none", "Popen"}
            IN  /\ fail = "open_stdin" => isString(_open_pipe(kwords, IN_STDIN))
                /\ fail = "open_stdout" => isString(_open_pipe(kwords, OUT_STDOUT))
                /\ fail = "open_stderr" => isString(_open_pipe(kwords, OUT_STDERR))
                /\ fail = "Popen" => call.status = "ok"
                /\ fail = "none" /\ call.status = "ok" =>
                       NextPid \in Pids /\ usable(streams)
                /\ _temp' = temp
                /\ _running' = TRUE
                /\ hist' = [runTemp |-> temp,
                            spawned |-> (fail = "none" /\ call.status = "ok"),
                            status |-> NoneV, committed |-> FALSE]
                /\ tempfs' = opened_wb(tempfs, realdir(temp), names)
                /\ destfs' = opened_outside(destfs, {x \in opened : dirname(x) # temp})
                /\ producer' = borrowed(streams)
                /\ popen' = IF templated /\ call.status = "ok"
                            THEN Popen_args(call.call, temp, streams)
                            ELSE popen
                /\ IF fail = "none" /\ call.status = "ok"
                   THEN /\ Popen(temp, streams.stdout, left_open(streams))
                        /\ sigterms' = forgotten(sigterms, _proc, 0)
                        /\ grandchild' = forgotten(grandchild, _proc, "none")
                        /\ _add_to_killlist(freed(_PROCS, {_proc}), NextPid)
                        /\ res' = Returned(<<>>, FALSE)
                   ELSE /\ res' = IF templated /\ call.status = "raise"
                                  THEN Raised("CmdError: Error running commands: "
                                                 \o "Error building Atomic Command",
                                              call.names)
                                  ELSE Raised("CmdError: Error running commands", {})
                        /\ handles' = handles \cup left_open(streams)
                        /\ UNCHANGED <<_proc, child, sigterms, _PROCS, handler,
                                       installs, waited, grandchild>>
                /\ UNCHANGED <<ctor, supervisor>>

--------------------------------------------------------------------------
(* SIGTERM delivered to the supervisor.                                   *)

\* How the supervisor ends: sys.exit(status), killed by a signal, or by an
\* OSError that os.killpg raised inside the signal handler.
Exited(status) == [state |-> "exited", status |-> status]
Killed(signum) == [state |-> "signaled", status |-> signum]
OSError == [state |-> "raised", status |-> 0]

\* As _cleanup_children, the process groups that no longer exist skipped.
_cleanup_children_skipping(procs, sent, group, signum) ==
    LET live == {p \in procs : pgid_exists(p)}
    IN  /\ sigterms' = killpg_sent(sent, live)
        /\ grandchild' = killpg_group(group, live)
        /\ supervisor' = Exited(0 - signum)

\* _cleanup_children(signum, _frame), procs being the kill list: os.killpg
\* for each entry, in the order of a set, then sys.exit(-signum).  os.killpg
\* raises OSError for a process group that no longer exists; done are the
\* entries signalled before that one.
_cleanup_children(procs, sent, group, signum) ==
    LET gone == {p \in procs : ~pgid_exists(p)}
    IN  IF gone = {}
        THEN /\ sigterms' = killpg_sent(sent, procs)
             /\ grandchild' = killpg_group(group, procs)
             /\ supervisor' = Exited(0 - signum)
        ELSE \E done \in SUBSET (procs \ gone) :
                /\ sigterms' = killpg_sent(sent, done)
                /\ grandchild' = killpg_group(group, done)
                /\ supervisor' = OSError

\* SIGTERM when h is the handler in force: the default action ends the
\* process; the handler signal.signal installed runs otherwise.
delivered(h, procs, sent, group) ==
    IF h = "SIG_DFL"
    THEN /\ sigterms' = sent
         /\ grandchild' = group
         /\ supervisor' = Killed(SIGTERM)
    ELSE _cleanup_children(procs, sent, group, SIGTERM)

\* SIGTERM arrives between two calls, or while join() waits.
Sigterm ==
    /\ supervisor = Running
    /\ delivered(handler, _PROCS, sigterms, grandchild)
    /\ Env
    /\ UNCHANGED <<ctor, popen, producer, _proc, _temp, _running, _PROCS, handler, child,
                   tempfs, destfs, handles, installs, waited, hist>>

\* The statements of run() after which a handler may run while the child
\* exists and is not yet in the kill list: the assignment of the Popen
\* object, and signal.signal in _add_to_killlist.
RunPoints == {"Popen", "signal.signal"}

\* run(temp) during which SIGTERM arrives, right after the statement at.
run_sigterm(temp, at) ==
    /\ supervisor = Running
    /\ built.status = "ok"
    /\ ~_running
    /\ NextPid \in Pids
    /\ op' = "run"
    /\ arg' = temp
    /\ res' = NoResult
    /\ LET kwords == _generate_filenames(_files, temp)
           streams == streams_at(kwords, "none")
           opened == {x \in {streams.stdout, streams.stderr} : isString(x)}
           names == {basename(v) : v \in {x \in opened : dirname(x) = temp}}
           call == _generate_call(_files, command, root_of(temp))
           procs == freed(_PROCS, {_proc})
           installed == at = "signal.signal" /\ procs = {}
       IN  /\ call.status = "ok"
           /\ usable(streams)
           /\ _temp' = temp
           /\ _running' = TRUE
           /\ hist' = [runTemp |-> temp, spawned |-> FALSE,
                       status |-> NoneV, committed |-> FALSE]
           /\ tempfs' = opened_wb(tempfs, realdir(temp), names)
           /\ destfs' = opened_outside(destfs, {x \in opened : dirname(x) # temp})
           /\ producer' = borrowed(streams)
           /\ popen' = Popen_args(call.call, temp, streams)
           /\ Popen(temp, streams.stdout, left_open(streams))
           /\ _PROCS' = procs
           /\ handler' = IF installed THEN "_cleanup_children" ELSE handler
           /\ installs' = IF installed THEN installs + 1 ELSE installs
           /\ delivered(handler', procs, forgotten(sigterms, _proc, 0),
                        forgotten(grandchild, _proc, "none"))
    /\ UNCHANGED ctor

--------------------------------------------------------------------------
(* AtomicCmd.ready, join, wait, terminate                                 *)

\* bool(self._proc and self._proc.poll() is not None)
ready == _proc # 0 /\ polled(child[_proc])

\* signals.to_str(number): the name of a signal.
to_str(number) ==
    CASE number = 15 -> "SIGTERM"
      [] number = 13 -> "SIGPIPE"
      [] number = 9 -> "SIGKILL"
      [] OTHER -> "signal(" \o ToString(number) \o ")"

\* As return_value, the sign of the return code kept when it is looked up.
return_value_unnegated(return_code) ==
    IF return_code < 0 THEN StrV(to_str(return_code)) ELSE IntV(return_code)

\* The element join() returns for a Popen.wait() value.
return_value(return_code) ==
    IF return_code < 0 THEN StrV(to_str(0 - return_code)) ELSE IntV(return_code)

\* join(): end is how the child ends while join() waits for it, when it
\* is still running at the call.
_join(end, as_list) ==
    IF _proc = 0
    THEN /\ end = NoEnd
         /\ res' = Returned(<<NoneV>>, as_list)
         /\ UNCHANGED <<ctor, popen, producer, _proc, _temp, _running, _PROCS, handler,
                        child, sigterms, tempfs, destfs, handles, installs,
                        waited, grandchild, supervisor, hist>>
    ELSE /\ IF child[_proc].state = "running"
            THEN end \in Endings(_proc)
            ELSE end = NoEnd
         /\ _running' = FALSE
         /\ child' = IF child[_proc].state = "running"
                     THEN [child EXCEPT ![_proc] = Ended(@, end)]
                     ELSE child
         /\ waited' = waited \cup {_proc}
         /\ res' = Returned(<<return_value(returncode(child'[_proc]))>>, as_list)
         /\ hist' = [hist EXCEPT !.status = res'.ret[1]]
         /\ UNCHANGED <<ctor, popen, producer, _proc, _temp, _PROCS, handler, sigterms,
                        tempfs, destfs, handles, installs, grandchild,
                        supervisor>>

JoinEnds == {NoEnd} \cup UNION {Endings(p) : p \in Pids}

join(end) ==
    /\ supervisor = Running
    /\ op' = "join"
    /\ arg' = ""
    /\ _join(end, TRUE)

\* wait(): self.join()[0].
wait(end) ==
    /\ supervisor = Running
    /\ op' = "wait"
    /\ arg' = ""
    /\ _join(end, FALSE)

terminate ==
    /\ supervisor = Running
    /\ op' = "terminate"
    /\ arg' = ""
    /\ res' = Returned(<<>>, FALSE)
    /\ waited' = poll(waited)
    /\ IF _proc # 0 /\ ~polled(child[_proc])
       THEN /\ sigterms[_proc] < MaxTerm
            /\ sigterms' = killpg_sent(sigterms, {_proc})
            /\ grandchild' = killpg_group(grandchild, {_proc})
       ELSE UNCHANGED <<sigterms, grandchild>>
    /\ UNCHANGED <<ctor, popen, producer, _proc, _temp, _running, _PROCS, handler, child,
                   tempfs, destfs, handles, installs, supervisor, hist>>

--------------------------------------------------------------------------
(* AtomicCmd.commit                                                       *)

\* set(os.listdir(temp))
listdir(temp) == {b \in Basenames : tempfs[realdir(temp)][b] # "absent"}

\* As commit_check, without the check that join() was called.
commit_check_no_join(temp) ==
    IF ~ready THEN "CmdError: Attempting to commit before command has completed"
    ELSE IF ~samefile(_temp, temp)
         THEN "CmdError: Mismatch between previous and current temp folders"
         ELSE ""

\* As commit_check, the temp directory not compared with that of run().
commit_check_any_temp(temp) ==
    IF ~ready THEN "CmdError: Attempting to commit before command has completed"
    ELSE IF _running THEN "CmdError: Called 'commit' before calling 'join'"
    ELSE ""

\* The checks commit() makes before it touches a file: the message of the
\* error it raises, "" when it raises none.
commit_check(temp) ==
    IF ~ready THEN "CmdError: Attempting to commit before command has completed"
    ELSE IF _running THEN "CmdError: Called 'commit' before calling 'join'"
    ELSE IF ~samefile(_temp, temp)
         THEN "CmdError: Mismatch between previous and current temp folders"
         ELSE ""

\* As missing_files, the names bound as TEMP_OUT_* expected as well.
missing_files_temp_too(temp) ==
    (expected_temp_files(_files)
     \cup {basename(_files[k]) :
              k \in {x \in DOMAIN _files :
                        startswith(x, <<"TEMP", "OUT">>) /\ isString(_files[x])}})
    \ listdir(temp)

\* As missing_files, the difference taken the other way round.
missing_files_reversed(temp) == listdir(temp) \ expected_temp_files(_files)

\* self.expected_temp_files - set(os.listdir(temp))
missing_files(temp) == expected_temp_files(_files) \ listdir(temp)

\* As moved_keys, the stream keys OUT_STDOUT and OUT_STDERR left out.
moved_keys_no_streams(filenames) ==
    {k \in DOMAIN filenames :
        /\ isString(filenames[k])
        /\ startswith(k, <<"OUT">>)
        /\ k \notin {OUT_STDOUT, OUT_STDERR}}

\* The keys commit() moves (key.startswith("OUT_")) and the keys it removes
\* (elif key.startswith("TEMP_OUT_")), among the string-valued ones.
moved_keys(filenames) ==
    {k \in DOMAIN filenames : isString(filenames[k]) /\ startswith(k, <<"OUT">>)}

removed_keys(filenames) ==
    {k \in DOMAIN filenames :
        /\ isString(filenames[k])
        /\ ~startswith(k, <<"OUT">>)
        /\ startswith(k, <<"TEMP", "OUT">>)}

\* fileutils.move_file(source, destination) for each key of ks, the
\* sources being in directory dir: the destinations afterwards.
move_file_dest(dfs, tfs, dir, ks, filenames, files) ==
    [p \in DestPaths |->
        IF \E k \in ks : files[k] = p
        THEN tfs[dir][basename(filenames[CHOOSE k \in ks : files[k] = p])]
        ELSE dfs[p]]

\* The temp directory after the files of the keys ks were moved away
\* (move_file) or removed (try_remove).
gone_from_temp(tfs, dir, ks, filenames) ==
    [tfs EXCEPT ![dir] =
        [b \in Basenames |->
            IF \E k \in ks : basename(filenames[k]) = b THEN "absent" ELSE @[b]]]

\* fileutils.try_remove(fpath) for each path of paths.
try_remove_all(dfs, paths) ==
    [p \in DestPaths |-> IF p \in paths THEN "absent" ELSE dfs[p]]

\* As rollback, nothing removed.
rollback_nothing(dfs, committed_files) == dfs

\* The cleanup after a failed commit: every file of committed_files is
\* removed.
rollback(dfs, committed_files) == try_remove_all(dfs, committed_files)

\* As set_rollback, nothing removed.
set_rollback_nothing(dfs, files) == dfs

\* The cleanup of ParallelCmds.commit after a child's commit() raised: the
\* files that the children before it had committed are removed.
set_rollback(dfs, files) == try_remove_all(dfs, files)

\* As commit_clears, the Popen object kept.
commit_clears_temp_only == [proc |-> _proc, temp |-> ""]

\* The last statements of commit(): self._proc = None, self._temp = None.
commit_clears == [proc |-> 0, temp |-> ""]

\* commit(temp).  The keys are visited in the order of a dict: done are the
\* keys visited before the one, failed, whose move_file or try_remove
\* raises; failed = <<>> when none does.  sibling is "none" for a call by
\* the caller; for a call by ParallelCmds.commit it is what the commit() of
\* the next child of the set then does, "ok" or "raise", and the step is
\* that of the set.
_commit(temp, sibling) ==
    /\ supervisor = Running
    /\ op' = IF sibling = "none" THEN "commit" ELSE "ParallelCmds.commit"
    /\ arg' = temp
    /\ IF commit_check(temp) # ""
       THEN /\ sibling # "raise"
            /\ res' = Raised(commit_check(temp), {})
            /\ waited' = poll(waited)
            /\ UNCHANGED <<ctor, popen, producer, _proc, _temp, _running, _PROCS, handler,
                           child, sigterms, tempfs, destfs, handles, installs,
                           grandchild, supervisor, hist>>
       ELSE IF missing_files(temp) # {}
       THEN /\ sibling # "raise"
            /\ res' = Raised("CmdError: Expected files not created", missing_files(temp))
            /\ waited' = poll(waited)
            /\ UNCHANGED <<ctor, popen, producer, _proc, _temp, _running, _PROCS, handler,
                           child, sigterms, tempfs, destfs, handles, installs,
                           grandchild, supervisor, hist>>
       ELSE LET filenames == _generate_filenames(_files, temp)
                dir == realdir(temp)
                moved == moved_keys(filenames)
                removed == removed_keys(filenames)
            IN  \E failed \in {<<>>} \cup moved \cup removed :
                \E done \in SUBSET ((moved \cup removed) \ {failed}) :
                    LET committed_files == {_files[k] : k \in done \cap moved}
                        after_moves == move_file_dest(destfs, tempfs, dir,
                                           done \cap moved, filenames, _files)
                    IN  /\ failed = <<>> => done = moved \cup removed
                        /\ failed \in removed =>
                               tempfs[dir][basename(filenames[failed])] # "absent"
                        /\ failed # <<>> => sibling # "raise"
                        /\ tempfs' = gone_from_temp(tempfs, dir, done, filenames)
                        /\ IF failed = <<>>
                           THEN /\ destfs' = IF sibling = "raise"
                                             THEN set_rollback(after_moves,
                                                               output_files(_files))
                                             ELSE after_moves
                                /\ _proc' = commit_clears.proc
                                /\ _temp' = commit_clears.temp
                                /\ _PROCS' = freed(_PROCS, {_proc})
                                /\ child' = [child EXCEPT ![_proc] = Reaped]
                                /\ sigterms' = forgotten(sigterms, _proc, 0)
                                /\ grandchild' = forgotten(grandchild, _proc, "none")
                                /\ waited' = waited \ {_proc}
                                /\ handles' = {h \in handles : h[1] # _proc}
                                /\ res' = IF sibling = "raise"
                                          THEN Raised("commit() of the next child raised", {})
                                          ELSE Returned(<<>>, FALSE)
                           ELSE /\ destfs' = rollback(after_moves, committed_files)
                                /\ res' = Raised("move_file/try_remove failed", {})
                                /\ waited' = poll(waited)
                                /\ UNCHANGED <<_proc, _temp, _PROCS, child,
                                               sigterms, grandchild, handles>>
                        /\ hist' = [hist EXCEPT !.committed =
                                        (failed = <<>> /\ sibling # "raise")]
                        /\ UNCHANGED <<ctor, popen, producer, _running, handler, installs,
                                       supervisor>>

\* AtomicCmd.commit(temp), called by the caller.
commit(temp) == _commit(temp, "none")

\* ParallelCmds([self, next]).commit(temp): the children commit in order;
\* when one raises, the set removes what the children before it committed
\* and raises again.
ParallelCmds_commit(temp, next) == _commit(temp, next)

--------------------------------------------------------------------------
Next ==
    \/ \E t \in RunPaths, f \in RunFailures : run(t, f)
    \/ \E e \in JoinEnds : join(e)
    \/ \E e \in JoinEnds : wait(e)
    \/ terminate
    \/ \E t \in TempPaths : commit(t)
    \/ \E p \in Pids, b \in Basenames : ChildWrite(p, b)
    \/ \E p \in Pids, e \in JoinEnds : ChildEnd(p, e)

Spec == Init /\ [][Next]_vars

\* The command built with stdout bound to PIPE, nothing at its destination,
\* with the grandchildren and the signals to the supervisor.
InitKill ==
    /\ Init
    /\ kwargs[OUT_STDOUT] = PIPE
    /\ \A p \in DestPaths : destfs[p] = "absent"

NextKill ==
    \/ Next
    \/ \E t \in RunPaths, at \in RunPoints : run_sigterm(t, at)
    \/ Sigterm
    \/ \E p \in Pids : ChildFork(p)
    \/ \E p \in Pids : GrandchildEnd(p)

KillSpec == InitKill /\ [][NextKill]_vars

\* The constructor, given any of the bundles of KwargsNew with the main
\* command, or any of the bundles of KwargsStreams with any of
\* StreamCommands.
InitNew ==
    /\ \/ kwargs \in KwargsNew /\ command = MainCommand
       \/ kwargs \in KwargsStreams /\ command \in StreamCommands
    /\ set_cwd = FALSE
    /\ built = NotBuilt
    /\ _files = <<>>
    /\ InitProcess
    /\ destfs = [p \in DestPaths |-> "absent"]
    /\ op = "env"
    /\ arg = ""
    /\ res = NoResult
    /\ hist = [runTemp |-> "", spawned |-> FALSE, status |-> NoneV,
               committed |-> FALSE]

new ==
    /\ built = NotBuilt
    /\ built' \in __init__(command, kwargs)
    /\ _files' = built'.files
    /\ op' = "new"
    /\ UNCHANGED <<kwargs, command, set_cwd, node, popen, producer, _proc, _temp,
                   _running, _PROCS, handler, child, sigterms, tempfs, destfs,
                   handles, installs, waited, grandchild, supervisor, arg, res,
                   hist>>

NextNew ==
    \/ new
    \/ \E t \in RunPaths, f \in RunFailures : run(t, f)

NewSpec == InitNew /\ [][NextNew]_vars

\* The bundles of a consumer: stdin bound to the producer, by either key.
KwargsPipe ==
    { (OUT_F :> Str("/abs", "out.txt")) @@ (OUT_STDOUT :> Str("/abs", "log"))
          @@ (IN_STDIN :> Cmd),
      (OUT_F :> Str("/abs", "out.txt")) @@ (OUT_STDOUT :> Str("/abs", "log"))
          @@ (TEMP_IN_STDIN :> Cmd) }

\* The caller runs the producer, whose stdout is bound to PIPE: its Popen
\* object keeps the read end of the pipe.
ProducerRun ==
    /\ supervisor = Running
    /\ producer = "built"
    /\ producer' = "open"
    /\ Env
    /\ UNCHANGED <<ctor, popen, _proc, _temp, _running, _PROCS, handler, child,
                   sigterms, tempfs, destfs, handles, installs, waited,
                   grandchild, supervisor, hist>>

\* The consumer of a pipe, run, terminated and joined, with the producer
\* run before it, after it or not at all.
InitPipe ==
    /\ kwargs \in KwargsPipe
    /\ command = MainCommand
    /\ set_cwd = FALSE
    /\ built \in __init__(command, kwargs)
    /\ built.status = "ok"
    /\ _files = built.files
    /\ InitProcess
    /\ destfs = [p \in DestPaths |-> "absent"]
    /\ op = "env"
    /\ arg = ""
    /\ res = NoResult
    /\ hist = [runTemp |-> "", spawned |-> FALSE, status |-> NoneV,
               committed |-> FALSE]

NextPipe ==
    \/ \E t \in RunPaths, f \in RunFailures : run(t, f)
    \/ \E e \in JoinEnds : join(e)
    \/ terminate
    \/ \E p \in Pids, e \in JoinEnds : ChildEnd(p, e)
    \/ ProducerRun

PipeSpec == InitPipe /\ [][NextPipe]_vars

\* The caller commits the producer: its self._proc is None again, as
\* before it was run.
ProducerCommit ==
    /\ supervisor = Running
    /\ producer # "built"
    /\ producer' = "built"
    /\ Env
    /\ UNCHANGED <<ctor, popen, _proc, _temp, _running, _PROCS, handler, child,
                   sigterms, tempfs, destfs, handles, installs, waited,
                   grandchild, supervisor, hist>>

\* run() of another command whose IN_STDIN is bound to the same producer,
\* as far as the producer's pipe goes: the stream it gets from _open_pipe,
\* whether subprocess.Popen takes it, and the finally clause.
run_other ==
    LET streams == [stdin |-> _open_pipe(IN_STDIN :> Cmd, IN_STDIN),
                    stdout |-> NoValue, stderr |-> NoValue]
    IN  /\ supervisor = Running
        /\ op' = "other.run"
        /\ arg' = ""
        /\ res' = IF usable(streams)
                  THEN Returned(<<>>, FALSE)
                  ELSE Raised("CmdError: Error running commands", {})
        /\ producer' = borrowed(streams)
        /\ UNCHANGED <<ctor, popen, _proc, _temp, _running, _PROCS, handler,
                       child, sigterms, tempfs, destfs, handles, installs,
                       waited, grandchild, supervisor, hist>>

\* The consumer, the producer and a second consumer of the same producer,
\* run in any order.
NextWire ==
    \/ \E t \in RunPaths, f \in RunFailures : run(t, f)
    \/ \E e \in JoinEnds : join(e)
    \/ \E p \in Pids, e \in JoinEnds : ChildEnd(p, e)
    \/ ProducerRun
    \/ ProducerCommit
    \/ run_other

WireSpec == InitPipe /\ [][NextWire]_vars

\* The command as the first child of a set of two, committed by the set.
NextSet ==
    \/ \E t \in RunPaths, f \in RunFailures : run(t, f)
    \/ \E e \in JoinEnds : join(e)
    \/ \E t \in TempPaths, next \in {"ok", "raise"} : ParallelCmds_commit(t, next)
    \/ \E p \in Pids, b \in Basenames : ChildWrite(p, b)
    \/ \E p \in Pids, e \in JoinEnds : ChildEnd(p, e)

SetSpec == Init /\ [][NextSet]_vars

\* Bound: the number of arguments that follow the executable in a command.
MaxArgs == 2

\* The keyword bundles the templating is tried on: inputs named by relative
\* and by absolute paths, destinations of their own, temporary files.
KwargsCall ==
    { (<<"IN", "F">> :> Str("rel", "in.txt")) @@ (<<"AUX", "X">> :> Str("", "aux"))
          @@ (<<"EXEC", "E">> :> Str("rel", "tool"))
          @@ (<<"OUT", "A">> :> Str("/p", "x")) @@ (<<"TEMP", "OUT", "T">> :> Str("", "t"))
          @@ (TEMP_IN_G :> Str("", "g")) @@ (OUT_STDOUT :> Str("/q", "log"))
          @@ (IN_STDIN :> Str("rel", "stdin")),
      (<<"IN", "F">> :> Str("/in", "f")) @@ (<<"OUT", "A">> :> Str("rel", "out"))
          @@ (OUT_STDOUT :> PIPE) @@ (OUT_STDERR :> Str("", "err"))
          @@ (IN_STDIN :> Cmd) @@ (<<"CHECK", "V">> :> Callable) }

\* The fields the commands are made of.
Fields ==
    {Ref(<<"IN", "F">>), Ref(<<"AUX", "X">>), Ref(<<"EXEC", "E">>),
     Ref(<<"OUT", "A">>), Ref(<<"TEMP", "OUT", "T">>), Ref(TEMP_IN_G),
     Ref(OUT_STDOUT), Ref(TEMP_OUT_STDERR), Ref(TEMP_DIR),
     Ref(<<"OUT", "MISSING">>), RefD(<<"OUT", "A">>), Malformed,
     Ref(IN_STDIN), Ref(<<"CHECK", "V">>)}

\* The commands: sh followed by up to MaxArgs fields, and the empty command.
Commands ==
    {<<>>} \cup {MainCommand \o args :
                    args \in UNION {[1..n -> Fields] : n \in 0..MaxArgs}}

\* The temp directories run() is given there: by an absolute and by a
\* relative path.
CallTemps == {"/tmp/X_link", "X"}

\* The constructor and run(), over the commands of Commands.
InitCall ==
    /\ kwargs \in KwargsCall
    /\ command \in Commands
    /\ set_cwd \in BOOLEAN
    /\ built = NotBuilt
    /\ _files = <<>>
    /\ InitProcess
    /\ destfs = [p \in DestPaths |-> "absent"]
    /\ op = "env"
    /\ arg = ""
    /\ res = NoResult
    /\ hist = [runTemp |-> "", spawned |-> FALSE, status |-> NoneV,
               committed |-> FALSE]

NextCall ==
    \/ new
    \/ \E t \in CallTemps, f \in RunFailures : run(t, f)

CallSpec == InitCall /\ [][NextCall]_vars

--------------------------------------------------------------------------
(* MultiBAMInputNode of paleomix/nodes/picard.py: the node that gives its  *)
(* command one or more BAM files as the single file input.bam of the temp *)
(* directory.  A file there is named by directory, stem and extension.    *)

\* Bound: the number of input BAM files a node is given.
MaxBams == 2

File(d, stem, ext) == [dir |-> d, stem |-> stem, ext |-> ext]

\* MultiBAMInputNode.PIPE_FILE, "input.bam".
PIPE_FILE == File("", "input", ".bam")

\* fileutils.swap_ext(filename, ext): the extension of the file replaced.
swap_ext(filename, ext) == [filename EXCEPT !.ext = ext]

\* os.path.join(temp, name) for such names.
join_temp(temp, name) == [name EXCEPT !.dir = temp]

\* An entry of the temp directory: "absent", a "fifo", a "symlink" to its
\* target or a "file".
Entry(type, target) == [type |-> type, target |-> target]

\* The names the temp directory of a node may hold: input.bam, its two
\* indexes and the output of the command.
NodeNames ==
    {join_temp("/tmp/X", n) :
        n \in {PIPE_FILE, swap_ext(PIPE_FILE, ".bai"), swap_ext(PIPE_FILE, ".csi"),
               File("", "out", ".bam")}}

\* MultiBAMInputNode(config, input_bams, command, index_format), "None"
\* being None: the node, or the ValueError it raises.  With more than one
\* input the command is made a set with a MergeSamFiles that writes to
\* TEMP_OUT_BAM = input.bam.
MultiBAMInputNode(input_bams, index_format) ==
    LET error ==
            IF Len(input_bams) = 0 THEN "ValueError: No input BAM files specified!"
            ELSE IF Len(input_bams) > 1 /\ index_format \notin {"None", ""}
            THEN "ValueError: BAM index cannot be required for > 1 file"
            ELSE IF index_format \notin {"None", ".bai", ".csi"}
            THEN "ValueError: Unknown index format"
            ELSE ""
    IN  /\ supervisor = Running
        /\ node = NoNode
        /\ node' = [NoNode EXCEPT
                       !.status = IF error = "" THEN "built" ELSE "raise",
                       !.err = error,
                       !.input_bams = input_bams,
                       !.index_format = index_format,
                       !.merge = (error = "" /\ Len(input_bams) > 1),
                       !.temp = [n \in NodeNames |-> Entry("absent", PIPE_FILE)]]
        /\ op' = "MultiBAMInputNode"
        /\ arg' = ""
        /\ res' = NoResult
        /\ UNCHANGED <<_files, kwargs, built, command, set_cwd, popen, producer,
                       _proc, _temp, _running, _PROCS, handler, child, sigterms,
                       tempfs, destfs, handles, installs, waited, grandchild,
                       supervisor, hist>>

\* _setup(config, temp): input.bam is made a FIFO for more than one input,
\* else a symlink to the input, with a symlink to the index of the input
\* beside it when an index format was given.
_setup(temp) ==
    LET pipe_fname == join_temp(temp, PIPE_FILE)
        source_fname == [node.input_bams[1] EXCEPT !.dir = abspath_dir(@)]
        made ==
            IF Len(node.input_bams) > 1
            THEN (pipe_fname :> Entry("fifo", PIPE_FILE))
            ELSE IF node.index_format \notin {"None", ""}
            THEN (pipe_fname :> Entry("symlink", source_fname))
                 @@ (swap_ext(pipe_fname, node.index_format)
                        :> Entry("symlink", swap_ext(source_fname, node.index_format)))
            ELSE (pipe_fname :> Entry("symlink", source_fname))
    IN  /\ supervisor = Running
        /\ node.status = "built"
        /\ node' = [node EXCEPT
                        !.status = "setup",
                        !.temp = [n \in NodeNames |->
                                     IF n \in DOMAIN made THEN made[n] ELSE @[n]],
                        !.created = DOMAIN made]
        /\ op' = "_setup"
        /\ arg' = temp
        /\ res' = NoResult
        /\ UNCHANGED <<_files, kwargs, built, command, set_cwd, popen, producer,
                       _proc, _temp, _running, _PROCS, handler, child, sigterms,
                       tempfs, destfs, handles, installs, waited, grandchild,
                       supervisor, hist>>

\* The command of the node runs: it writes its output into the temp
\* directory.
NodeRun ==
    /\ supervisor = Running
    /\ node.status = "setup"
    /\ node' = [node EXCEPT
                    !.status = "ran",
                    !.temp[File("/tmp/X", "out", ".bam")] = Entry("file", PIPE_FILE)]
    /\ Env
    /\ UNCHANGED <<_files, kwargs, built, command, set_cwd, popen, producer,
                   _proc, _temp, _running, _PROCS, handler, child, sigterms,
                   tempfs, destfs, handles, installs, waited, grandchild,
                   supervisor, hist>>

\* As teardown_names, the index left out.
teardown_names_pipe_only(index_format, temp) == {join_temp(temp, PIPE_FILE)}

\* The paths _teardown(config, temp) calls os.remove on.
teardown_names(index_format, temp) ==
    {join_temp(temp, PIPE_FILE)}
    \cup (IF index_format \notin {"None", ""}
          THEN {join_temp(temp, swap_ext(PIPE_FILE, index_format))}
          ELSE {})

\* _teardown(config, temp): the removals, then CommandNode._teardown, which
\* commits the command: its output leaves the temp directory.
_teardown(temp) ==
    LET names == teardown_names(node.index_format, temp)
    IN  /\ supervisor = Running
        /\ node.status \in {"setup", "ran"}
        /\ \A n \in names : n \in NodeNames /\ node.temp[n].type # "absent"
        /\ node' = [node EXCEPT
                        !.status = "torn",
                        !.temp = [n \in NodeNames |->
                                     IF n \in names \/ @[n].type = "file"
                                     THEN Entry("absent", PIPE_FILE) ELSE @[n]],
                        !.removed = names]
        /\ op' = "_teardown"
        /\ arg' = temp
        /\ res' = NoResult
        /\ UNCHANGED <<_files, kwargs, built, command, set_cwd, popen, producer,
                       _proc, _temp, _running, _PROCS, handler, child, sigterms,
                       tempfs, destfs, handles, installs, waited, grandchild,
                       supervisor, hist>>

\* The node constructed, set up, run and torn down, over up to MaxBams
\* input files named by relative and absolute paths and the index formats
\* None, .bai, .csi, .tbi and "".  Its command is the modelled command,
\* which no call is made on here.
NextNode ==
    LET BamPaths == {File("rel", "a", ".bam"), File("/data", "b", ".bam"),
                     File("", "c", ".bam")}
        InputBams == UNION {[1..n -> BamPaths] : n \in 0..MaxBams}
        IndexFormats == {"None", ".bai", ".csi", ".tbi", ""}
    IN  \/ \E bams \in InputBams, f \in IndexFormats : MultiBAMInputNode(bams, f)
        \/ _setup("/tmp/X")
        \/ NodeRun
        \/ _teardown("/tmp/X")

NodeSpec == InitKill /\ [][NextNode]_vars

--------------------------------------------------------------------------
(* The lifecycle, as the caller and the operating system see it.          *)

\* The number of children the command has spawned, and the last of them.
Spawned == NextPid - 1
LastChild == Spawned

\* run() has been called and returned, and commit() has not returned since.
HasRun == hist.spawned /\ ~hist.committed

\* join() or wait() has reported an exit status since the last run(), and
\* commit() has not returned since.
Joined == hist.status # NoneV /\ ~hist.committed

\* The string-valued OUT_* bindings, their names inside a temp directory
\* and the names missing from the directory a path names.
StringOutKeys == {k \in DOMAIN _files : k[1] = "OUT" /\ _files[k].kind = "str"}
OutNames == {_files[k].base : k \in StringOutKeys}
OutDests == {_files[k] : k \in StringOutKeys}
MissingIn(path) == {b \in OutNames : tempfs[realdir(path)][b] = "absent"}

MsgRunning == "CmdError: Calling 'run' on already running command."
MsgSpawn == "CmdError: Error running commands"
MsgNotJoined == "CmdError: Called 'commit' before calling 'join'"
MsgMismatch == "CmdError: Mismatch between previous and current temp folders"
MsgMissing == "CmdError: Expected files not created"
MsgMove == "move_file/try_remove failed"

--------------------------------------------------------------------------
\* C1: a file appears at a declared destination only as a result of
\* commit(), and only if the child exited with status 0 and every expected
\* output file was in the temp directory.
C1_PromotedOnlyOnSuccess ==
    [][(\E p \in DestPaths : destfs'[p] # destfs[p] /\ destfs'[p] # "absent")
        => /\ op' = "commit"
           /\ _proc # 0
           /\ child[_proc].state = "exited"
           /\ child[_proc].code = 0
           /\ MissingIn(arg') = {}]_vars

\* C2: after every commit(temp) that returns normally, the destination of
\* each string-valued OUT_* binding holds what temp/basename held at the
\* call, and temp/basename is gone.
C2_CommitMovesOutputs ==
    [][(op' = "commit" /\ res'.status = "ok")
        => \A k \in StringOutKeys :
               /\ tempfs[realdir(arg')][_files[k].base] # "absent"
               /\ destfs'[_files[k]] = tempfs[realdir(arg')][_files[k].base]
               /\ tempfs'[realdir(arg')][_files[k].base] = "absent"]_vars

\* C2 witness: commit() has returned and both declared outputs hold the
\* data the child wrote under their names.
C2_Witness ==
    /\ op = "commit"
    /\ res.status = "ok"
    /\ Cardinality(OutDests) = 2
    /\ \A p \in OutDests : destfs[p] = ChildData(p.base)

\* C3, as claimed: after every commit(temp) that raises, none of the
\* command's OUT_* destinations exists.
C3_NoDestinationAfterRaise ==
    (op = "commit" /\ res.status = "raise")
        => \A p \in OutDests : destfs[p] = "absent"

\* C3, amended: after every commit(temp) that raises, each OUT_*
\* destination is absent or exactly as it was before the call, and a
\* commit() that raises before it moves anything (wrong state, temp
\* mismatch, missing file) leaves every destination as it was.
C3_RaiseLeavesNoOutput ==
    [][(op' = "commit" /\ res'.status = "raise")
        => /\ \A p \in OutDests : destfs'[p] \in {"absent", destfs[p]}
           /\ res'.err # MsgMove => destfs' = destfs]_vars

\* C3 witness: a move failed after another output had been moved; the
\* moved one is gone again and a destination the call did not reach
\* still holds what it held.
C3_Witness ==
    /\ op = "commit"
    /\ res.status = "raise"
    /\ res.err = MsgMove
    /\ \E p, q \in OutDests :
          /\ destfs[p] = "old"
          /\ destfs[q] = "absent"
          /\ tempfs[realdir(arg)][q.base] = "absent"

\* C4: commit(temp) on a joined command, with the temp directory run() was
\* given, when an expected output is not in it: raises an error naming
\* exactly the missing names and moves or removes no file.
C4_MissingOutputRaises ==
    [][(/\ op' = "commit"
        /\ Joined
        /\ samefile(arg', hist.runTemp)
        /\ MissingIn(arg') # {})
        => /\ res'.status = "raise"
           /\ res'.err = MsgMissing
           /\ res'.names = MissingIn(arg')
           /\ tempfs' = tempfs
           /\ destfs' = destfs]_vars

\* C4 witness: commit() raised naming out.txt alone, while the other
\* expected output and the stderr sink are still in the temp directory.
C4_Witness ==
    /\ op = "commit"
    /\ res.err = MsgMissing
    /\ res.names = {"out.txt"}
    /\ tempfs[realdir(arg)]["log"] # "absent"
    /\ tempfs[realdir(arg)]["pipe_sh_1.stderr"] # "absent"

\* C5: commit(temp) raises unless the command is joined and temp is the
\* directory given to run(): on a command never run, one whose child is
\* running, one not joined, and when temp is another directory.
C5_CommitNeedsJoinedSameTemp ==
    [][(/\ op' = "commit"
        /\ \/ hist.runTemp = ""
           \/ (LastChild # 0 /\ child[LastChild].state = "running")
           \/ ~Joined
           \/ ~samefile(arg', hist.runTemp))
        => res'.status = "raise"]_vars

\* C5 witness: the child has exited, join() has not been called and
\* commit() raised; and: a joined command's commit() with another
\* directory raised.
C5_Witness ==
    /\ op = "commit"
    /\ res.status = "raise"
    /\ \/ (res.err = MsgNotJoined /\ child[LastChild].state = "exited")
       \/ (res.err = MsgMismatch /\ Joined /\ arg = "/tmp/Y")
    /\ MissingIn(hist.runTemp) = {}

\* C6: run(temp) succeeds only on a command that was never run, so a
\* command spawns at most one child.
C6_RunOnlyWhenBuilt ==
    [][(op' = "run" /\ res'.status = "ok")
        => (hist.runTemp = "" /\ Spawned = 0 /\ Spawned' = 1)]_vars

\* C7: after a run(temp) that failed to open a stream file or to spawn, the
\* command is as it was built: no child, nothing in the kill list, ready()
\* false, and run() is accepted again.
C7_FailedRunLeavesBuilt ==
    (op = "run" /\ res.status = "raise" /\ res.err = MsgSpawn)
        => /\ _proc = 0
           /\ _PROCS = {}
           /\ ~ready
           /\ ~_running

\* C8: ready() is false on a command never run and while the child runs,
\* and true from the child's exit on, also after join() and after a
\* commit() that returned.
C8_ReadyOnceExited ==
    /\ hist.runTemp = "" => ~ready
    /\ (LastChild # 0 /\ child[LastChild].state = "running") => ~ready
    /\ (hist.spawned /\ child[LastChild].state # "running") => ready

\* C9: join() on a command never run, whose run() failed, or that is
\* committed reports no exit status and does not make the command joined.
C9_JoinNeedsRun ==
    [][(/\ op' = "join"
        /\ (hist.runTemp = "" \/ ~hist.spawned \/ hist.committed))
        => /\ res'.ret = <<NoneV>>
           /\ ~(ready' /\ ~_running')]_vars

--------------------------------------------------------------------------
\* C11: terminate() raises nothing, sends no signal unless the child is
\* running, and over any number of calls sends SIGTERM to a running
\* child's process group once only.
C11_TerminateSendsOnce ==
    [][op' = "terminate"
        => /\ res'.status = "ok"
           /\ \A p \in Pids : sigterms'[p] # sigterms[p]
                 => /\ p = _proc
                    /\ child[p].state = "running"
                    /\ sigterms[p] = 0
                    /\ sigterms'[p] = 1]_vars

\* C12: once terminate() has returned and the child's exit status has been
\* collected, no process the child forked into its process group is alive,
\* whether the child ended before or after the call.
C12_GroupGoneAfterTerminate ==
    (op = "terminate" /\ _proc # 0 /\ _proc \in waited)
        => grandchild[_proc] # "alive"

\* C13: after join() (or wait()) has returned on a run command, the
\* supervisor holds no open handle on the child's stdout or stderr, and the
\* child, the writer of a stdout pipe, has ended.
C13_NoHandleAfterJoin ==
    (op \in {"join", "wait"} /\ HasRun)
        => /\ handles = {}
           /\ child[LastChild].state # "running"

\* The string-valued TEMP_OUT_* bindings, the default sinks included.
TempOutKeys ==
    {k \in DOMAIN _files :
        k[1] = "TEMP" /\ k[2] = "OUT" /\ _files[k].kind = "str"}

\* C14: no file bound as TEMP_OUT_* exists at a location outside the temp
\* directories, whatever run(), join() and commit() calls were made and
\* however they ended.
C14_TempOutStaysInTemp ==
    \A k \in TempOutKeys : \A p \in DestPaths :
        p.base = _files[k].base => destfs[p] = "absent"

\* C14 witness: commit() has returned; the stderr sink run() created in
\* the temp directory is gone from it and the declared output is at its
\* destination.
C14_Witness ==
    /\ op = "commit"
    /\ res.status = "ok"
    /\ TEMP_OUT_STDERR \in TempOutKeys
    /\ tempfs[realdir(arg)][_files[TEMP_OUT_STDERR].base] = "absent"
    /\ destfs[_files[OUT_F]] = ChildData("out.txt")

\* C15: when SIGTERM reaches the supervisor and _cleanup_children is the
\* handler, every registered child that runs is sent SIGTERM and the
\* supervisor exits with status -SIGTERM, whatever else the registry holds.
C15_HandlerSignalsAndExits ==
    [][(supervisor = Running /\ supervisor' # Running
        /\ handler' = "_cleanup_children")
        => /\ supervisor' = [state |-> "exited", status |-> 0 - SIGTERM]
           /\ \A p \in _PROCS' : child'[p].state = "running"
                 => sigterms'[p] = sigterms[p] + 1]_vars

\* C16: once SIGTERM has reached the supervisor, every child that runs has
\* been sent SIGTERM, whenever the signal arrived.
C16_LiveChildSignalled ==
    supervisor # Running
        => \A p \in Pids : child[p].state = "running" => sigterms[p] > 0

\* C17: after join(), wait() or terminate() has returned, the kill list
\* holds no entry for the command's child.
C17_JoinedChildUnregistered ==
    (op \in {"join", "wait", "terminate"} /\ _proc # 0) => _proc \notin _PROCS

\* C18: a run() on a command never run installs the SIGTERM handler if none
\* was installed, and a run() after a commit() installs none again: the
\* handler is registered once.
C18_HandlerInstalledOnce ==
    [][(/\ op' = "run"
        /\ res'.status = "ok"
        /\ (hist.runTemp = "" \/ hist.committed))
        => /\ handler' = "_cleanup_children"
           /\ installs' = 1]_vars

\* The file sets of a constructed command, and the string values and the
\* callables among its keyword arguments.
FourSets ==
    built.file_sets["input"] \cup built.file_sets["output"]
    \cup built.file_sets["auxiliary"] \cup built.file_sets["executable"]
StringKeys == {k \in DOMAIN kwargs : kwargs[k].kind = "str"}
CheckValues == {kwargs[k] : k \in {x \in DOMAIN kwargs : x[1] = "CHECK"}}
Argv0 == command[1].text

Sinks == {k \in {<<"TEMP", "OUT", "STDOUT">>, <<"TEMP", "OUT", "STDERR">>} :
            /\ (k \notin DOMAIN kwargs \/ kwargs[k].kind = "none")
            /\ (<<"OUT", k[3]>> \notin DOMAIN kwargs
                   \/ kwargs[<<"OUT", k[3]>>].kind = "none")}
OutBase(k) ==
    IF k \in DOMAIN kwargs /\ kwargs[k].kind # "none"
    THEN kwargs[k].base
    ELSE "pipe_sh_1." \o (IF k[3] = "STDOUT" THEN "stdout" ELSE "stderr")
OutKeys ==
    {k \in DOMAIN kwargs :
        /\ (k[1] = "OUT" \/ (k[1] = "TEMP" /\ k[2] = "OUT"))
        /\ kwargs[k].kind = "str"} \cup Sinks
Colliding == {k \in OutKeys : \E j \in OutKeys : j # k /\ OutBase(j) = OutBase(k)}

\* The bundle passes the checks made before the one of the output names:
\* every keyword has a known prefix, every value the type its keyword
\* asks for, and no TEMP_ value a directory part.
PassesEarlierChecks ==
    \A k \in DOMAIN kwargs :
        /\ k[1] \in {"IN", "OUT", "EXEC", "AUX", "CHECK", "TEMP"}
        /\ kwargs[k].kind # "none"
              => /\ k[1] \in {"IN", "OUT", "EXEC", "AUX", "TEMP"}
                    => (kwargs[k].kind = "str"
                        \/ (kwargs[k].kind = "pipe" /\ k[Len(k)] = "STDOUT"))
                 /\ k[1] = "CHECK" => kwargs[k].kind = "callable"
                 /\ k[1] = "TEMP" => kwargs[k].dir = ""

MsgSameOutput == "ValueError: Same output filename"

\* C20, as claimed: the constructor raises whenever two output bindings
\* have the same basename, its error lists all the colliding keys, and no
\* constructed command has two output bindings of the same basename.
C20_DuplicateBasenameListsAll ==
    /\ (built.status # "-" /\ Colliding # {})
          => (built.status = "raise" /\ built.names = Colliding)
    /\ built.status = "ok" => Colliding = {}

\* C20, amended: the constructor raises whenever two output bindings have
\* the same basename; when the bundle passes the earlier checks the error
\* is the one of the output names, and that error lists all the keys bound
\* to one of the colliding basenames; no constructed command has two output
\* bindings of the same basename.
C20_DuplicateBasenameRejected ==
    /\ (built.status # "-" /\ Colliding # {})
          => /\ built.status = "raise"
             /\ PassesEarlierChecks => built.err = MsgSameOutput
             /\ built.err = MsgSameOutput
                   => \E k \in Colliding :
                         built.names = {j \in OutKeys : OutBase(j) = OutBase(k)}
    /\ built.status = "ok" => Colliding = {}

\* C20 witness: the constructor refused an OUT_ value named as the default
\* stderr sink, listing both keys, while two other bindings collide too.
C20_Witness ==
    /\ built.err = MsgSameOutput
    /\ built.names = {<<"OUT", "B">>, <<"TEMP", "OUT", "STDERR">>}
    /\ Cardinality(Colliding) = 4

--------------------------------------------------------------------------
(* The streams and the temporary files of a constructed command.          *)

\* The keyword is bound: given, and not None.
Bound(kw, k) == k \in DOMAIN kw /\ kw[k] # NoValue

Streams == {IN_STDIN, OUT_STDOUT, OUT_STDERR}

MsgPipes == "CmdError: Pipes may only be specified once"
MsgString == "TypeError: must be string"
MsgDir == "ValueError: cannot contain dir component"

\* C21: the constructor raises when a stream is bound both by its plain key
\* and by its TEMP_ key (IN_STDIN and TEMP_IN_STDIN, OUT_STDOUT and
\* TEMP_OUT_STDOUT, OUT_STDERR and TEMP_OUT_STDERR), so that a constructed
\* command has at most one binding for each stream.
C21_StreamBoundOnce ==
    built # NotBuilt =>
        \A pipe \in Streams :
            /\ Bound(kwargs, pipe) /\ Bound(kwargs, <<"TEMP">> \o pipe)
                   => built.status = "raise"
            /\ built.status = "ok"
                   => ~(pipe \in DOMAIN built.files
                        /\ (<<"TEMP">> \o pipe) \in DOMAIN built.files)

\* The constructor has refused stdin bound twice, to a file and to a
\* command, for that reason alone.
C21_Witness ==
    /\ op = "new"
    /\ built.status = "raise"
    /\ built.err = MsgPipes
    /\ Bound(kwargs, IN_STDIN)
    /\ Bound(kwargs, TEMP_IN_STDIN)

\* C22: the constructor raises when PIPE is bound to any key other than
\* OUT_STDOUT and TEMP_OUT_STDOUT, whatever the group of the key; in a
\* constructed command only those two keys can hold PIPE.
C22_PipeOnlyForStdout ==
    built # NotBuilt =>
        /\ (\E k \in DOMAIN kwargs :
                kwargs[k] = PIPE /\ k \notin {OUT_STDOUT, TEMP_OUT_STDOUT})
               => built.status = "raise"
        /\ built.status = "ok"
               => \A k \in DOMAIN built.files :
                      built.files[k] = PIPE => k \in {OUT_STDOUT, TEMP_OUT_STDOUT}

\* The constructor has refused PIPE as the value of OUT_STDERR, in a bundle
\* that also binds TEMP_OUT_STDOUT to PIPE.
C22_Witness ==
    /\ op = "new"
    /\ built.status = "raise"
    /\ built.err = MsgString
    /\ built.names = {OUT_STDERR}
    /\ kwargs[OUT_STDERR] = PIPE
    /\ Bound(kwargs, TEMP_OUT_STDOUT)
    /\ kwargs[TEMP_OUT_STDOUT] = PIPE

\* C23: the constructor raises when a TEMP_IN_* or TEMP_OUT_* key is bound
\* to a string with a directory part, so that every string a TEMP_ key of
\* a constructed command is bound to is a bare file name.
C23_TempNamesAreBare ==
    built # NotBuilt =>
        /\ (\E k \in DOMAIN kwargs :
                /\ _KEY_RE(k) \in {<<"TEMP", "IN">>, <<"TEMP", "OUT">>}
                /\ isString(kwargs[k])
                /\ dirname(kwargs[k]) # "")
               => built.status = "raise"
        /\ built.status = "ok"
               => \A k \in DOMAIN built.files :
                      startswith(k, <<"TEMP">>) /\ isString(built.files[k])
                          => dirname(built.files[k]) = ""

\* The constructor has refused TEMP_IN_STDIN bound to a name inside a
\* directory.
C23_Witness ==
    /\ op = "new"
    /\ built.status = "raise"
    /\ built.err = MsgDir
    /\ built.names = {TEMP_IN_STDIN}
    /\ dirname(kwargs[TEMP_IN_STDIN]) = "sub"

\* The name of the default sink of a stream of the modelled commands,
\* whose executable is sh and whose id is 1.
SinkName(pipe) == IF pipe = "STDOUT" THEN "pipe_sh_1.stdout" ELSE "pipe_sh_1.stderr"

\* C25: for each of stdout and stderr that is bound neither by its OUT_ key
\* nor by its TEMP_OUT_ key the constructor adds the TEMP_OUT_ key, bound to
\* pipe_<basename of argv[0]>_<id>.<stdout|stderr> with one id for both.
\* Every constructed command has therefore exactly one sink for each of
\* the two streams, and subprocess.Popen is never given None (inherit) for
\* the child's stdout or stderr.
C25_DefaultSinks ==
    built.status = "ok" =>
        /\ \A pipe \in {"STDOUT", "STDERR"} :
               /\ (<<"OUT", pipe>> \in DOMAIN _files)
                      # (<<"TEMP", "OUT", pipe>> \in DOMAIN _files)
               /\ ~Bound(kwargs, <<"OUT", pipe>>)
                      /\ ~Bound(kwargs, <<"TEMP", "OUT", pipe>>)
                      => _files[<<"TEMP", "OUT", pipe>>] = Str("", SinkName(pipe))
        /\ popen # NoPopen =>
               /\ popen.stdout # NoValue
               /\ popen.stderr # NoValue
               /\ \A pipe \in {"STDOUT", "STDERR"} :
                      ~Bound(kwargs, <<"OUT", pipe>>)
                      /\ ~Bound(kwargs, <<"TEMP", "OUT", pipe>>)
                      => Str(hist.runTemp, SinkName(pipe)) \in {popen.stdout, popen.stderr}

\* A command given as /bin/sh with stdout bound to None and stderr not
\* bound has been constructed and run: its child writes to the two default
\* sinks in the temp directory.
C25_Witness ==
    /\ hist.spawned
    /\ command[1].text = Str("/bin", "sh")
    /\ OUT_STDOUT \in DOMAIN kwargs
    /\ kwargs[OUT_STDOUT] = NoValue
    /\ popen.stdout = Str("/tmp/X_link", "pipe_sh_1.stdout")
    /\ popen.stderr = Str("/tmp/X_link", "pipe_sh_1.stderr")

--------------------------------------------------------------------------
(* The argv of the child.                                                 *)

MsgTemplate == "CmdError: Error running commands: Error building Atomic Command"

\* The keys a command may name whatever is bound: TEMP_DIR, and the keys of
\* the default sinks.
AlwaysKeys == {TEMP_DIR, TEMP_OUT_STDOUT, TEMP_OUT_STDERR}

\* The fields of the command that name a key of the given groups which is
\* bound to a string.
PathFields(prefixes) ==
    {i \in DOMAIN command :
        /\ command[i].fmt = "s"
        /\ command[i].key \in DOMAIN _files
        /\ isString(_files[command[i].key])
        /\ \E p \in prefixes : startswith(command[i].key, p)}

\* C24: the constructor templates the command once and raises when a field
\* names a key that nothing is bound to or is a malformed format string;
\* the templating that run(temp) does can therefore not fail, whatever the
\* temp directory: a run() that fails fails for another reason, and a
\* run() that gets to subprocess.Popen passes it one argument per field.
C24_TemplateCheckedAtConstruction ==
    /\ (built # NotBuilt /\ command # <<>>
           /\ \E i \in DOMAIN command :
                  \/ command[i].fmt = "%"
                  \/ /\ command[i].fmt \in {"s", "d"}
                     /\ command[i].key \notin AlwaysKeys
                     /\ ~Bound(kwargs, command[i].key))
           => built.status = "raise"
    /\ op = "run" =>
           /\ res.err # MsgTemplate
           /\ (popen # NoPopen => Len(popen.call) = Len(command))

\* run() of a command with set_cwd has templated TEMP_DIR and an input
\* bound to a relative path, for a temp directory named by a relative path.
C24_Witness ==
    /\ op = "run"
    /\ hist.spawned
    /\ set_cwd
    /\ arg = "X"
    /\ command = <<Lit(Str("", "sh")), Ref(TEMP_DIR), Ref(<<"IN", "F">>)>>
    /\ popen.call = <<Str("", "sh"), Str("", ""), Str("/tmp/rel", "in.txt")>>

\* C26: with set_cwd the child is started in the temp directory; every
\* IN_* and AUX_* path in its argv is absolute and names the file that was
\* bound; every OUT_* and TEMP_* path in its argv is the bare basename,
\* which the child resolves inside the temp directory; the files of stdout
\* and stderr are opened by the supervisor in the temp directory as run()
\* was given it.
C26_SetCwdPaths ==
    popen # NoPopen /\ set_cwd =>
        /\ popen.cwd = hist.runTemp
        /\ \A i \in PathFields({<<"IN">>, <<"AUX">>}) :
               /\ dirname(popen.call[i]) \notin RelativeDirs
               /\ popen.call[i] = abspath(_files[command[i].key])
        /\ \A i \in PathFields({<<"OUT">>, <<"TEMP">>}) :
               popen.call[i] = Str("", basename(_files[command[i].key]))
        /\ \A h \in {popen.stdout, popen.stderr} :
               isString(h) => dirname(h) = hist.runTemp

\* A command with set_cwd has been run in the temp directory X: the input
\* bound to rel/in.txt is passed as /tmp/rel/in.txt, the output as x.
C26_Witness ==
    /\ hist.spawned
    /\ set_cwd
    /\ popen.cwd = "X"
    /\ command = <<Lit(Str("", "sh")), Ref(<<"IN", "F">>), Ref(<<"OUT", "A">>)>>
    /\ popen.call = <<Str("", "sh"), Str("/tmp/rel", "in.txt"), Str("", "x")>>
    /\ popen.stdout = Str("X", "log")

\* The value stdout or stderr is bound to.
SinkOf(pipe) ==
    IF <<"OUT", pipe>> \in DOMAIN _files
    THEN _files[<<"OUT", pipe>>]
    ELSE _files[<<"TEMP", "OUT", pipe>>]

\* C29: without set_cwd every OUT_* and TEMP_* path in the child's argv is
\* join(abspath(temp), basename(value)), and the files opened for stdout
\* and stderr are those of that name; none of them is a declared
\* destination, which the child is never handed.
C29_OutputsStagedInTemp ==
    popen # NoPopen /\ ~set_cwd =>
        /\ popen.cwd = "None"
        /\ \A i \in PathFields({<<"OUT">>, <<"TEMP">>}) :
               /\ popen.call[i] = Str(abspath_dir(hist.runTemp),
                                      basename(_files[command[i].key]))
               /\ popen.call[i] \notin output_files(_files)
        /\ isString(popen.stdout) =>
               /\ abspath(popen.stdout) = Str(abspath_dir(hist.runTemp),
                                              basename(SinkOf("STDOUT")))
               /\ popen.stdout \notin output_files(_files)
        /\ isString(popen.stderr) =>
               /\ abspath(popen.stderr) = Str(abspath_dir(hist.runTemp),
                                              basename(SinkOf("STDERR")))
               /\ popen.stderr \notin output_files(_files)

\* A command without set_cwd has been run in the temp directory X: the
\* output bound to /p/x is passed as /tmp/X/x, and stdout, bound to /q/log,
\* is the file log opened in X.
C29_Witness ==
    /\ hist.spawned
    /\ ~set_cwd
    /\ arg = "X"
    /\ command = <<Lit(Str("", "sh")), Ref(<<"OUT", "A">>), Ref(OUT_STDOUT)>>
    /\ popen.call = <<Str("", "sh"), Str("/tmp/X", "x"), Str("/tmp/X", "log")>>
    /\ popen.stdout = Str("X", "log")

--------------------------------------------------------------------------
(* The handles of run().                                                  *)

\* stdin is bound to the producer.
StdinFromProducer ==
    \E k \in {IN_STDIN, TEMP_IN_STDIN} : k \in DOMAIN _files /\ _files[k] = Cmd

\* C28: when run(temp) returns or raises, the supervisor holds none of the
\* handles run() opened or borrowed for the child's stdin, stdout and
\* stderr: the files are closed, and so is the read end of the producer's
\* stdout pipe that was to be the child's stdin.  Once the consumer is
\* spawned on that pipe, the supervisor holds no end of it.
C28_RunClosesItsHandles ==
    /\ \A h \in handles : h[1] # 0
    /\ op = "run" /\ res.err # MsgRunning /\ StdinFromProducer
           => producer # "open"
    /\ hist.spawned /\ popen.stdin = Cmd => producer = "closed"

\* run() of the consumer has returned, its child reading from the pipe of
\* the producer that was run before it.
C28_Witness ==
    /\ op = "run"
    /\ hist.spawned
    /\ TEMP_IN_STDIN \in DOMAIN _files
    /\ popen.stdin = Cmd
    /\ producer = "closed"
    /\ handles = {}

--------------------------------------------------------------------------
(* Temporary files at commit().                                           *)

TempOutNames == {_files[k].base : k \in TempOutKeys}

\* C30: commit() never fails for a file bound as TEMP_OUT_* that is not in
\* the temp directory: the files it reports missing are declared outputs,
\* and it reports none when every declared output is there.  When it
\* returns, no file bound as TEMP_OUT_*, default sinks included, is left in
\* the temp directory; the files bound as TEMP_IN_* are as they were,
\* whether it returns or raises.
C30_TempOutOptionalAndTransient ==
    [][op' = "commit" =>
          /\ res'.err = MsgMissing =>
                 /\ res'.names = MissingIn(arg')
                 /\ res'.names \cap TempOutNames = {}
          /\ commit_check(arg') = "" /\ MissingIn(arg') = {} => res'.err # MsgMissing
          /\ res'.status = "ok" =>
                 \A b \in TempOutNames : tempfs'[realdir(arg')][b] = "absent"
          /\ \A d \in Dirs : \A b \in Staged(kwargs) :
                 tempfs'[d][b] = tempfs[d][b]]_vars

\* commit() has returned for the command whose stdout is PIPE: the stderr
\* sink is gone from the temp directory, the staged file g is still there.
C30_Witness ==
    /\ op = "commit"
    /\ res.status = "ok"
    /\ hist.committed
    /\ kwargs[OUT_STDOUT] = PIPE
    /\ TempOutNames = {"pipe_sh_1.stderr"}
    /\ tempfs[realdir(arg)]["pipe_sh_1.stderr"] = "absent"
    /\ Staged(kwargs) = {"g"}
    /\ tempfs[realdir(arg)]["g"] = "old"

--------------------------------------------------------------------------
(* The commit of a set of commands.                                       *)

MsgNext == "commit() of the next child raised"

\* C27: when a set commits its children in order and the commit() of a
\* child returns but that of the next child raises, none of the
\* destinations of the first child holds a file once the set's commit has
\* raised, whether its files were new or replaced older ones.
C27_SetRollback ==
    [][op' = "ParallelCmds.commit" /\ res'.err = MsgNext
          => /\ OutDests # {}
             /\ \A p \in OutDests : destfs'[p] = "absent"]_vars

\* The commit of the set has raised after the first child had committed:
\* that child is back to its state before run(), its two outputs are
\* neither in the temp directory nor at their destinations.
C27_Witness ==
    /\ op = "ParallelCmds.commit"
    /\ res.err = MsgNext
    /\ _proc = 0
    /\ Cardinality(OutDests) = 2
    /\ \A p \in OutDests : destfs[p] = "absent"
    /\ \A b \in OutNames : tempfs[realdir(arg)][b] = "absent"

--------------------------------------------------------------------------
(* commit() is one-shot.                                                  *)

MsgNotReady == "CmdError: Attempting to commit before command has completed"

\* C31: a commit() that returns leaves the command without a child handle
\* and without a temp directory; a commit() called again after one that
\* returned, with no run() in between, raises and leaves every file where
\* it is; a commit() that fails while it moves or removes files keeps the
\* child handle and the temp directory.
C31_CommitIsOneShot ==
    [][op' = "commit" =>
          /\ res'.status = "ok" => _proc' = 0 /\ _temp' = ""
          /\ hist.committed =>
                 /\ res'.err = MsgNotReady
                 /\ destfs' = destfs
                 /\ tempfs' = tempfs
                 /\ _proc' = 0
          /\ res'.err = MsgMove =>
                 /\ _proc # 0
                 /\ _proc' = _proc
                 /\ _temp' = _temp
                 /\ _temp # ""]_vars

\* The second commit() has raised: the outputs the first one moved are at
\* their destinations still.
C31_Witness ==
    /\ op = "commit"
    /\ res.err = MsgNotReady
    /\ hist.committed
    /\ _proc = 0
    /\ _temp = ""
    /\ OutDests # {}
    /\ \A p \in OutDests : destfs[p] \notin {"absent", "old"}

--------------------------------------------------------------------------
(* stdout and stderr bound to one path.                                   *)

\* The constructor was given OUT_STDOUT and OUT_STDERR, bound to the same
\* path, and nothing else.
SharedSink ==
    /\ DOMAIN kwargs = {OUT_STDOUT, OUT_STDERR}
    /\ isString(kwargs[OUT_STDOUT])
    /\ kwargs[OUT_STDERR] = kwargs[OUT_STDOUT]

\* C32: a command whose OUT_STDOUT and OUT_STDERR are bound to the same
\* path is constructed, and run() gives the child that one file as both
\* its stdout and its stderr.
C32_SharedSinkAccepted ==
    SharedSink /\ built # NotBuilt =>
        /\ built.status = "ok"
        /\ op = "run" /\ res.status = "ok" =>
               /\ popen.stdout = popen.stderr
               /\ isString(popen.stdout)
               /\ basename(popen.stdout) = basename(kwargs[OUT_STDOUT])

--------------------------------------------------------------------------
(* Values that are not strings, named by a field of the command.          *)

\* The fields of the command that name a key bound to PIPE, to an
\* AtomicCmd or to a callable.
NonStringFields ==
    {i \in DOMAIN command :
        /\ command[i].fmt = "s"
        /\ command[i].key \in DOMAIN kwargs
        /\ kwargs[command[i].key].kind \in {"pipe", "cmd", "callable"}}

\* C33: a command with a field that names a key bound to a value that is
\* not a string is refused by the constructor with a templating error, so
\* that no such value is ever rendered into the argv given to
\* subprocess.Popen.
C33_OnlyStringsSubstituted ==
    built # NotBuilt /\ NonStringFields # {} =>
        /\ built.status = "raise"
        /\ popen = NoPopen

--------------------------------------------------------------------------
(* The stdout of the command, as other commands get it.                   *)

\* self._proc and self._proc.stdout: the read end of the stdout pipe that
\* the Popen object keeps, None when there is no Popen object or when it
\* was not given stdout=PIPE.
AtomicCmd_stdout ==
    IF _proc # 0 /\ <<_proc, "stdout">> \in handles THEN Cmd ELSE NoValue

\* The stdout of the command is bound to PIPE.
StdoutIsPipe ==
    \E k \in {OUT_STDOUT, TEMP_OUT_STDOUT} : k \in DOMAIN _files /\ _files[k] = PIPE

\* C34: the command gives other commands a handle on its stdout exactly
\* while its stdout is bound to PIPE and its child runs: none before
\* run(), none for a stdout bound to a file, none once the child has ended
\* or has been joined.
C34_StdoutHandleIffRunning ==
    AtomicCmd_stdout # NoValue
        <=> (StdoutIsPipe /\ _proc # 0 /\ child[_proc].state = "running")

--------------------------------------------------------------------------
(* The wiring of a consumer to its producer.                              *)

\* C35: run() of a command whose stdin is bound to another command, when
\* it returns, has given the child the producer's stdout pipe as its stdin
\* if the producer has a Popen object whose pipe is still open (it was run
\* and not committed since), and None, the supervisor's own stdin, if the
\* producer has none (it was never run, or was committed); the missing
\* producer makes run() raise nothing.
C35_WiredIffProducerRan ==
    [][op' = "run" /\ ~_running /\ StdinFromProducer /\ res'.status = "ok" =>
          /\ producer = "open" => popen'.stdin = Cmd
          /\ producer = "built" => popen'.stdin = NoValue /\ producer' = "built"
          /\ producer # "closed"
          /\ child'[_proc'].state = "running"]_vars

\* The consumer was run before the producer: run() returned, the child
\* runs, its stdin is not the producer's pipe, and the producer, run
\* since, still holds the read end of its pipe.
C35_Witness ==
    /\ StdinFromProducer
    /\ hist.spawned
    /\ hist.status = NoneV
    /\ popen.stdin = NoValue
    /\ _proc # 0
    /\ child[_proc].state = "running"
    /\ producer = "open"

\* C36: a run() that gives its child the producer's pipe closes the
\* supervisor's handle on it; run() of a command bound to a producer whose
\* pipe was closed this way raises the spawn error, spawns nothing and
\* leaves the child of the first consumer, and what it was spawned with,
\* as they are.
C36_PipeHasOneConsumer ==
    [][/\ op' = "run" /\ res'.status = "ok" /\ StdinFromProducer /\ producer = "open"
            => producer' = "closed"
       /\ op' = "other.run" /\ res'.status = "ok" /\ producer = "open"
            => producer' = "closed"
       /\ op' = "other.run" /\ producer = "closed"
            => /\ res'.err = MsgSpawn
               /\ producer' = "closed"
               /\ <<popen', child', _proc', handles'>> = <<popen, child, _proc, handles>>
       /\ op' = "run" /\ ~_running /\ StdinFromProducer /\ producer = "closed"
            => /\ res'.err = MsgSpawn
               /\ producer' = "closed"
               /\ <<child', _proc'>> = <<child, _proc>>]_vars

\* run() of the second consumer has raised while the child of the first
\* one runs on the producer's pipe.
C36_Witness ==
    /\ op = "other.run"
    /\ res.err = MsgSpawn
    /\ popen.stdin = Cmd
    /\ _proc # 0
    /\ child[_proc].state = "running"
    /\ producer = "closed"

--------------------------------------------------------------------------
(* The handler and the kill list.                                         *)

\* C37: while the kill list holds an entry, _cleanup_children is the
\* handler of SIGTERM; every run() that adds its child to a kill list
\* that is empty at that moment, the first of the process or one that
\* follows the removal of all earlier entries, calls signal.signal for it.
C37_HandlerWhileRegistered ==
    [][/\ _PROCS' # {} => handler' = "_cleanup_children"
       /\ op' = "run" /\ res'.status = "ok" =>
              /\ _proc' \in _PROCS'
              /\ freed(_PROCS, {_proc}) = {} => installs' = installs + 1]_vars

\* The second child was added to a kill list that the freeing of the
\* first child's Popen object had emptied: signal.signal was called again.
C37_Witness ==
    /\ op = "run"
    /\ res.status = "ok"
    /\ _proc = 2
    /\ _PROCS = {2}
    /\ installs = 2
    /\ handler = "_cleanup_children"

--------------------------------------------------------------------------
(* Calls that are refused.                                                *)

\* What a refused call leaves as it is: the child handle, the running
\* flag, the temp directory of run(), the kill list and its handler, the
\* children, the open handles, the files and what the caller has seen.
Kept ==
    <<_proc, _running, _temp, _PROCS, handler, installs, child, sigterms,
      handles, tempfs, destfs, hist>>

\* C38: run() on a command that is running raises and changes nothing;
\* commit() on a command whose child has not ended or has not been joined,
\* or with a temp directory other than that of run(), raises and changes
\* nothing: child handle, running flag, temp directory, kill list and
\* files are as before, so that join() and commit() with the temp
\* directory of run() find the command as they would have without the
\* refused call.
C38_RefusedCallChangesNothing ==
    [][/\ op' = "run" /\ _running =>
              res'.err = MsgRunning /\ Kept' = Kept
       /\ op' = "commit" /\ (~ready \/ _running \/ ~samefile(_temp, arg')) =>
              /\ res'.err \in {MsgNotReady, MsgNotJoined, MsgMismatch}
              /\ Kept' = Kept]_vars

\* commit() with another command's temp directory was refused for the
\* mismatch: the joined command still has its child handle, its temp
\* directory and its outputs in it, nothing is at the destinations.
C38_Witness ==
    /\ op = "commit"
    /\ res.err = MsgMismatch
    /\ arg = "/tmp/Y"
    /\ _proc # 0
    /\ ~_running
    /\ _temp = "/tmp/X_link"
    /\ Joined
    /\ MissingIn(_temp) = {}
    /\ commit_check(_temp) = ""
    /\ \A p \in OutDests : destfs[p] = "absent"

--------------------------------------------------------------------------
(* What a MultiBAMInputNode leaves in the temp directory.                 *)

\* The arguments the constructor accepts: at least one input, an index
\* format only for a single input, and none but .bai and .csi.
Accepted(input_bams, index_format) ==
    /\ Len(input_bams) >= 1
    /\ index_format \in {"None", ".bai", ".csi"}
    /\ Len(input_bams) > 1 => index_format = "None"

InputBam == File("/tmp/X", "input", ".bam")
InputIndexes == {File("/tmp/X", "input", ext) : ext \in {".bai", ".csi"}}
NoEntry == Entry("absent", PIPE_FILE)

\* The absolute path of the first input of the node, with extension ext.
SourceAs(ext) ==
    File(abspath_dir(node.input_bams[1].dir), node.input_bams[1].stem, ext)

\* C39: the constructor raises exactly for an empty input list, an index
\* format given with more than one input, and an index format other than
\* .bai and .csi.  _setup creates input.bam, a FIFO for more than one
\* input and a symlink to the single input otherwise, and with an index
\* format the symlink to the input's index, and nothing else, so that a
\* FIFO never comes with an index entry.  _teardown calls os.remove on
\* exactly the entries _setup created, and none of them is left.
C39_TeardownRemovesWhatSetupCreated ==
    /\ node.status # "-" =>
           (node.status = "raise" <=> ~Accepted(node.input_bams, node.index_format))
    /\ node.status \in {"setup", "ran"} =>
           /\ node.temp[InputBam] =
                  IF Len(node.input_bams) > 1 THEN Entry("fifo", PIPE_FILE)
                  ELSE Entry("symlink", SourceAs(".bam"))
           /\ \A n \in InputIndexes :
                  node.temp[n] =
                      IF n.ext = node.index_format
                      THEN Entry("symlink", SourceAs(n.ext))
                      ELSE NoEntry
           /\ node.created = {n \in NodeNames : node.temp[n].type \in {"fifo", "symlink"}}
           /\ node.temp[InputBam].type = "fifo" =>
                  \A n \in InputIndexes : node.temp[n] = NoEntry
    /\ node.status = "torn" =>
           /\ node.removed = node.created
           /\ InputBam \in node.removed
           /\ \A n \in NodeNames : node.temp[n] = NoEntry

\* _teardown has removed the two symlinks _setup had made for a single
\* input named by a relative path and its .csi index.
C39_Witness ==
    /\ op = "_teardown"
    /\ node.status = "torn"
    /\ node.input_bams = <<File("rel", "a", ".bam")>>
    /\ node.index_format = ".csi"
    /\ node.removed = {InputBam, File("/tmp/X", "input", ".csi")}
    /\ \A n \in NodeNames : node.temp[n] = NoEntry

====
